---- MODULE Spec2Model ----
(***************************************************************************)
(* Model of the death-extraction / pattern-detection engine of the LoL AI  *)
(* coach: src/src/analysis/pattern_detector.py, the match, death and       *)
(* pattern tables of src/src/db/repositories.py, the analysis pass of      *)
(* src/scripts/analyze_player.py, the retrying API calls of                *)
(* src/src/coach/claude_coach.py and src/src/api/riot.py, and the mission  *)
(* tracker of src/src/discord_bot/missions.py with the counters of         *)
(* src/src/discord_bot/memory.py.                                          *)
(*                                                                         *)
(* Python dicts are records (functions on strings); d.get(k, default) is   *)
(* Get(d, k, default).  Python lists are sequences.                        *)
(***************************************************************************)
EXTENDS Integers, Sequences, FiniteSets, TLC

VARIABLES
    fn,                \* the pure function under call ("" when none)
    args,              \* its arguments, a record
    ret,               \* its return value (meaningful once calls > 0)
    calls,             \* how many times it has been evaluated on args
    db_patterns,       \* the patterns table: sequence of rows, in rowid order
    db_matches,        \* the matches table, in rowid order
    db_deaths,         \* the deaths table, in rowid order
    pc,                \* position of analyze_player inside its analysis pass
    player,            \* player["id"] of the running pass
    all_deaths,        \* analyze_player's all_deaths
    pattern_updates,   \* the updates of detect_patterns not yet upserted
    triggered,         \* history: pattern keys upserted in the running pass
    passes,            \* number of completed analysis passes
    priority_pattern,  \* analyze_player's priority_pattern (<<>> is None)
    lastOp,            \* history: the last repository call and its arguments
    before,            \* history: the patterns table before that call
    tasks,             \* concurrent analysis passes: each one's position and locals
    sessions,          \* MissionTracker.sessions: user id -> UserSession
    profile            \* PlayerMemory: the user's mission counters

vars == <<fn, args, ret, calls, db_patterns, db_matches, db_deaths, pc, player, all_deaths,
          pattern_updates, triggered, passes, priority_pattern, lastOp, before, tasks,
          sessions, profile>>

callVars == <<fn, args, ret, calls>>
passVars == <<pc, player, all_deaths, pattern_updates, triggered, passes,
              priority_pattern>>
repoVars == <<db_patterns, lastOp, before>>
botVars == <<sessions, profile>>
storeVars == <<db_matches, db_deaths>>

----------------------------------------------------------------------------
(* Helpers for Python containers *)

Get(d, k, default) == IF k \in DOMAIN d THEN d[k] ELSE default

Range(s) == {s[i] : i \in 1..Len(s)}

RECURSIVE SeqSum(_)
SeqSum(s) == IF s = <<>> THEN 0 ELSE Head(s) + SeqSum(Tail(s))

\* sequences over S of length at most n
SeqsUpTo(S, n) == UNION {[1..k -> S] : k \in 0..n}

\* sequences over S without repetition, of length at most n
DistinctSeqsUpTo(S, n) ==
    {s \in SeqsUpTo(S, n) : \A i, j \in 1..Len(s) : i # j => s[i] # s[j]}

Abs(n) == IF n < 0 THEN -n ELSE n

----------------------------------------------------------------------------
(* Enumerations *)

GamePhase == {"early", "mid", "late"}

MapZone == {"top_lane", "mid_lane", "bot_lane",
            "river_top", "river_bot", "river_mid",
            "jungle_top_blue", "jungle_bot_blue", "jungle_top_red", "jungle_bot_red",
            "base_blue", "base_red", "unknown"}

DeathType == {"gank", "solo_kill", "teamfight", "caught", "tower_dive", "unknown"}

PatternKey == {"river_death_no_ward", "dies_when_ahead", "early_death_repeat",
               "tower_dive_fail", "caught_sidelane", "facecheck",
               "overextend_no_vision", "dies_to_same_champ"}

----------------------------------------------------------------------------
(* Zone / phase classifier *)

\* Python's None in the place of a coordinate (map coordinates are not negative)
None == -1

determine_map_zone_lanes_first(x, y) ==
    IF x = None \/ y = None THEN "unknown"
    ELSE IF x < 2000 /\ y < 2000 THEN "base_blue"
    ELSE IF x > 13000 /\ y > 13000 THEN "base_red"
    ELSE IF x < 4000 /\ y > 11000 THEN "top_lane"
    ELSE IF x < 2500 /\ y > 8000 THEN "top_lane"
    ELSE IF x > 11000 /\ y < 4000 THEN "bot_lane"
    ELSE IF x > 8000 /\ y < 2500 THEN "bot_lane"
    ELSE IF Abs(x - y) < 3000 /\ 4000 < x /\ x < 11000 /\ 4000 < y /\ y < 11000
         THEN "mid_lane"
    ELSE IF 11000 < x + y /\ x + y < 19000 THEN
        (IF y > 10000 \/ x < 5000 THEN "river_top"
         ELSE IF y < 5000 \/ x > 10000 THEN "river_bot"
         ELSE "river_mid")
    ELSE IF x < 7500 THEN (IF y > 7500 THEN "jungle_top_blue" ELSE "jungle_bot_blue")
    ELSE (IF y > 7500 THEN "jungle_top_red" ELSE "jungle_bot_red")

determine_map_zone_closed_mid(x, y) ==
    IF x = None \/ y = None THEN "unknown"
    ELSE IF x < 2000 /\ y < 2000 THEN "base_blue"
    ELSE IF x > 13000 /\ y > 13000 THEN "base_red"
    ELSE IF 11000 < x + y /\ x + y < 19000 THEN
        (IF y > 10000 \/ x < 5000 THEN "river_top"
         ELSE IF y < 5000 \/ x > 10000 THEN "river_bot"
         ELSE "river_mid")
    ELSE IF x < 4000 /\ y > 11000 THEN "top_lane"
    ELSE IF x < 2500 /\ y > 8000 THEN "top_lane"
    ELSE IF x > 11000 /\ y < 4000 THEN "bot_lane"
    ELSE IF x > 8000 /\ y < 2500 THEN "bot_lane"
    ELSE IF Abs(x - y) < 3000 /\ 4000 <= x /\ x <= 11000 /\ 4000 <= y /\ y <= 11000
         THEN "mid_lane"
    ELSE IF x < 7500 THEN (IF y > 7500 THEN "jungle_top_blue" ELSE "jungle_bot_blue")
    ELSE (IF y > 7500 THEN "jungle_top_red" ELSE "jungle_bot_red")

\* the None test written as a truth test (`if not x or not y`)
determine_map_zone_falsy_unknown(x, y) ==
    IF x = None \/ y = None \/ x = 0 \/ y = 0 THEN "unknown"
    ELSE IF x < 2000 /\ y < 2000 THEN "base_blue"
    ELSE IF x > 13000 /\ y > 13000 THEN "base_red"
    ELSE IF 11000 < x + y /\ x + y < 19000 THEN
        (IF y > 10000 \/ x < 5000 THEN "river_top"
         ELSE IF y < 5000 \/ x > 10000 THEN "river_bot"
         ELSE "river_mid")
    ELSE IF x < 4000 /\ y > 11000 THEN "top_lane"
    ELSE IF x < 2500 /\ y > 8000 THEN "top_lane"
    ELSE IF x > 11000 /\ y < 4000 THEN "bot_lane"
    ELSE IF x > 8000 /\ y < 2500 THEN "bot_lane"
    ELSE IF Abs(x - y) < 3000 /\ 4000 < x /\ x < 11000 /\ 4000 < y /\ y < 11000
         THEN "mid_lane"
    ELSE IF x < 7500 THEN (IF y > 7500 THEN "jungle_top_blue" ELSE "jungle_bot_blue")
    ELSE (IF y > 7500 THEN "jungle_top_red" ELSE "jungle_bot_red")

\* `x is None or y is None` opens the function; every other value is an integer
determine_map_zone(x, y) ==
    IF x = None \/ y = None THEN "unknown"
    ELSE IF x < 2000 /\ y < 2000 THEN "base_blue"
    ELSE IF x > 13000 /\ y > 13000 THEN "base_red"
    ELSE IF 11000 < x + y /\ x + y < 19000 THEN
        (IF y > 10000 \/ x < 5000 THEN "river_top"
         ELSE IF y < 5000 \/ x > 10000 THEN "river_bot"
         ELSE "river_mid")
    ELSE IF x < 4000 /\ y > 11000 THEN "top_lane"
    ELSE IF x < 2500 /\ y > 8000 THEN "top_lane"
    ELSE IF x > 11000 /\ y < 4000 THEN "bot_lane"
    ELSE IF x > 8000 /\ y < 2500 THEN "bot_lane"
    ELSE IF Abs(x - y) < 3000 /\ 4000 < x /\ x < 11000 /\ 4000 < y /\ y < 11000
         THEN "mid_lane"
    ELSE IF x < 7500 THEN (IF y > 7500 THEN "jungle_top_blue" ELSE "jungle_bot_blue")
    ELSE (IF y > 7500 THEN "jungle_top_red" ELSE "jungle_bot_red")

\* minutes = timestamp_ms / 60000 compared with 10 and 20 (exact on integers)
determine_game_phase(timestamp_ms) ==
    IF timestamp_ms < 10 * 60000 THEN "early"
    ELSE IF timestamp_ms < 20 * 60000 THEN "mid"
    ELSE "late"

is_river_zone(zone) == zone \in {"river_top", "river_bot", "river_mid"}

is_sidelane(zone) == zone \in {"top_lane", "bot_lane"}

----------------------------------------------------------------------------
(* Death classifier *)

\* jungler_ids of _classify_death_type: enemy-team participants with role JUNGLE
jungler_ids(participants, player_team_id) ==
    LET enemy_team_id == IF player_team_id = 100 THEN 200 ELSE 100
    IN {participants[i].participantId : i \in
          {j \in 1..Len(participants) :
              /\ Get(participants[j], "teamId", 0) = enemy_team_id
              /\ Get(participants[j], "teamPosition", "None") = "JUNGLE"}}

classify_teamfight_first(killer_id, assisting_ids, position, participants, participant_frames, player_team_id) ==
    LET total_enemies_involved == 1 + Len(assisting_ids)
        jids == jungler_ids(participants, player_team_id)
        jungler_involved ==
            killer_id \in jids \/ \E i \in 1..Len(assisting_ids) : assisting_ids[i] \in jids
    IN IF total_enemies_involved >= 3 THEN "teamfight"
       ELSE IF total_enemies_involved >= 2 /\ jungler_involved THEN "gank"
       ELSE IF total_enemies_involved = 1 THEN "solo_kill"
       ELSE "caught"

classify_teamfight_above_three(killer_id, assisting_ids, position, participants, participant_frames, player_team_id) ==
    LET total_enemies_involved == 1 + Len(assisting_ids)
        jids == jungler_ids(participants, player_team_id)
        jungler_involved ==
            killer_id \in jids \/ \E i \in 1..Len(assisting_ids) : assisting_ids[i] \in jids
    IN IF total_enemies_involved >= 2 /\ jungler_involved THEN "gank"
       ELSE IF total_enemies_involved = 1 THEN "solo_kill"
       ELSE IF total_enemies_involved > 3 THEN "teamfight"
       ELSE "caught"

classify_tower_dive_in_base(killer_id, assisting_ids, position, participants, participant_frames, player_team_id) ==
    LET total_enemies_involved == 1 + Len(assisting_ids)
        jids == jungler_ids(participants, player_team_id)
        jungler_involved ==
            killer_id \in jids \/ \E i \in 1..Len(assisting_ids) : assisting_ids[i] \in jids
    IN IF (position[1] < 2000 /\ position[2] < 2000) \/ (position[1] > 13000 /\ position[2] > 13000)
          THEN "tower_dive"
       ELSE IF total_enemies_involved >= 2 /\ jungler_involved THEN "gank"
       ELSE IF total_enemies_involved = 1 THEN "solo_kill"
       ELSE IF total_enemies_involved >= 3 THEN "teamfight"
       ELSE "caught"

_classify_death_type(killer_id, assisting_ids, position, participants, participant_frames, player_team_id) ==
    LET total_enemies_involved == 1 + Len(assisting_ids)
        jids == jungler_ids(participants, player_team_id)
        jungler_involved ==
            killer_id \in jids \/ \E i \in 1..Len(assisting_ids) : assisting_ids[i] \in jids
    IN IF total_enemies_involved >= 2 /\ jungler_involved THEN "gank"
       ELSE IF total_enemies_involved = 1 THEN "solo_kill"
       ELSE IF total_enemies_involved >= 3 THEN "teamfight"
       ELSE "caught"

----------------------------------------------------------------------------
(* Death extractor *)

\* an empty Python dict / a missing JSON object
EmptyDict == [k \in {} |-> 0]

\* str(participant_id): the keys of participantFrames are decimal strings
Str(n) == CASE n = 0 -> "0" [] n = 1 -> "1" [] n = 2 -> "2" [] n = 3 -> "3"
            [] n = 4 -> "4" [] n = 5 -> "5" [] OTHER -> "?"

RECURSIVE Concat(_)
Concat(ss) == IF ss = <<>> THEN <<>> ELSE Head(ss) \o Concat(Tail(ss))

\* the timeline's events, those that lack an optional kill field left out
frame_events_complete_only(frames) ==
    Concat([i \in 1..Len(frames) |->
              LET evs == Get(frames[i], "events", <<>>)
                  Complete(e) == {"timestamp", "position", "killerId",
                                  "assistingParticipantIds"} \subseteq DOMAIN e
                  kept == SelectSeq(evs, Complete)
              IN [j \in 1..Len(kept) |-> [frame |-> frames[i], event |-> kept[j]]]])

\* every event of the timeline with the frame that holds it, in timeline order
frame_events(frames) ==
    Concat([i \in 1..Len(frames) |->
              [j \in 1..Len(Get(frames[i], "events", <<>>)) |->
                  [frame |-> frames[i], event |-> frames[i].events[j]]]])

\* index of the first participant with this puuid, 0 when there is none
find_participant(participants, puuid) ==
    LET hits == {i \in 1..Len(participants) : participants[i].puuid = puuid}
    IN IF hits = {} THEN 0 ELSE CHOOSE i \in hits : \A j \in hits : i <= j

find_lane_opponent_any_team(participants, opponent_team_id, player_role) ==
    LET hits == {i \in 1..Len(participants) :
                    Get(participants[i], "teamPosition", "None") = player_role}
    IN IF hits = {} THEN 0
       ELSE participants[CHOOSE i \in hits : \A j \in hits : i <= j].participantId

\* participantId of the first opposing participant with the player's role, 0 (None)
\* when none; p.get(key) of a missing key is None, here 0 / "None", which equals
\* no team id and no role label
find_lane_opponent(participants, opponent_team_id, player_role) ==
    LET hits == {i \in 1..Len(participants) :
                    /\ Get(participants[i], "teamId", 0) = opponent_team_id
                    /\ Get(participants[i], "teamPosition", "None") = player_role}
    IN IF hits = {} THEN 0
       ELSE participants[CHOOSE i \in hits : \A j \in hits : i <= j].participantId

\* champion_by_id.get(pid, "Unknown"): the last participant with that id wins
champion_by_id(participants, pid) ==
    LET hits == {i \in 1..Len(participants) : participants[i].participantId = pid}
    IN IF hits = {} THEN "Unknown"
       ELSE participants[CHOOSE i \in hits : \A j \in hits : i >= j].championName

\* first pass of extract_deaths_from_match: the subject's WARD_PLACED events
collect_ward_events(frames, participant_id) ==
    LET all == frame_events(frames)
        IsWard(fe) == /\ Get(fe.event, "type", "") = "WARD_PLACED"
                      /\ Get(fe.event, "creatorId", 0) = participant_id
        mine == SelectSeq(all, IsWard)
    IN [i \in 1..Len(mine) |->
          [timestamp |-> Get(mine[i].event, "timestamp", 0),
           position  |-> Get(mine[i].event, "position", EmptyDict)]]

_check_ward_nearby_inclusive(ward_events, death_timestamp, death_x, death_y, lookback_ms, radius) ==
    \E i \in 1..Len(ward_events) :
        LET ward_time == Get(ward_events[i], "timestamp", 0)
            ward_pos  == Get(ward_events[i], "position", EmptyDict)
            ward_x    == Get(ward_pos, "x", 0)
            ward_y    == Get(ward_pos, "y", 0)
            time_diff == death_timestamp - ward_time
        IN /\ 0 <= time_diff /\ time_diff <= lookback_ms
           /\ (death_x - ward_x) * (death_x - ward_x)
                + (death_y - ward_y) * (death_y - ward_y) <= radius * radius

\* math.sqrt(dx^2 + dy^2) < radius, decided on the squares (exact for map coordinates)
_check_ward_nearby(ward_events, death_timestamp, death_x, death_y, lookback_ms, radius) ==
    \E i \in 1..Len(ward_events) :
        LET ward_time == Get(ward_events[i], "timestamp", 0)
            ward_pos  == Get(ward_events[i], "position", EmptyDict)
            ward_x    == Get(ward_pos, "x", 0)
            ward_y    == Get(ward_pos, "y", 0)
            time_diff == death_timestamp - ward_time
        IN /\ 0 < time_diff /\ time_diff < lookback_ms
           /\ (death_x - ward_x) * (death_x - ward_x)
                + (death_y - ward_y) * (death_y - ward_y) < radius * radius

\* the DeathContext built for one CHAMPION_KILL event of the subject
death_context(match_data, participants, participant, participant_id, lane_opponent_id, ward_events, frame, event) ==
    LET frame_timestamp    == Get(frame, "timestamp", 0)
        participant_frames == Get(frame, "participantFrames", EmptyDict)
        timestamp     == Get(event, "timestamp", frame_timestamp)
        position      == Get(event, "position", EmptyDict)
        pos_x         == Get(position, "x", 0)
        pos_y         == Get(position, "y", 0)
        killer_id     == Get(event, "killerId", 0)
        assisting_ids == Get(event, "assistingParticipantIds", <<>>)
        player_frame  == Get(participant_frames, Str(participant_id), EmptyDict)
        player_gold   == Get(player_frame, "totalGold", 0)
        player_cs     == Get(player_frame, "minionsKilled", 0)
                           + Get(player_frame, "jungleMinionsKilled", 0)
        player_level  == Get(player_frame, "level", 1)
        opponent_frame == Get(participant_frames, Str(lane_opponent_id), EmptyDict)
        opponent_gold  == Get(opponent_frame, "totalGold", 0)
        opponent_cs    == Get(opponent_frame, "minionsKilled", 0)
                            + Get(opponent_frame, "jungleMinionsKilled", 0)
        opponent_level == Get(opponent_frame, "level", 1)
        player_team_id == Get(participant, "teamId", 100)
    IN [match_id              |-> Get(Get(match_data, "metadata", EmptyDict), "matchId", "unknown"),
        game_timestamp_ms     |-> timestamp,
        game_phase            |-> determine_game_phase(timestamp),
        position_x            |-> pos_x,
        position_y            |-> pos_y,
        map_zone              |-> determine_map_zone(pos_x, pos_y),
        killer_champion       |-> champion_by_id(participants, killer_id),
        killer_participant_id |-> killer_id,
        assisting_champions   |-> [i \in 1..Len(assisting_ids) |->
                                      champion_by_id(participants, assisting_ids[i])],
        had_ward_nearby       |-> _check_ward_nearby(ward_events, timestamp, pos_x, pos_y,
                                                     30000, 1500),
        gold_diff             |-> IF lane_opponent_id # 0 THEN player_gold - opponent_gold ELSE 0,
        cs_diff               |-> IF lane_opponent_id # 0 THEN player_cs - opponent_cs ELSE 0,
        level_diff            |-> IF lane_opponent_id # 0 THEN player_level - opponent_level ELSE 0,
        player_gold           |-> player_gold,
        player_champion       |-> Get(participant, "championName", "Unknown"),
        death_type            |-> _classify_death_type(killer_id, assisting_ids, <<pos_x, pos_y>>,
                                                       participants, participant_frames,
                                                       player_team_id)]

\* extract_deaths_from_match without the victimId test on the kill events
extract_deaths_from_match_any_victim(match_data, timeline_data, puuid) ==
    LET info          == Get(match_data, "info", EmptyDict)
        participants  == Get(info, "participants", <<>>)
        idx           == find_participant(participants, puuid)
        participant   == IF idx = 0 THEN EmptyDict ELSE participants[idx]
        participant_id == Get(participant, "participantId", 0)
        player_role   == Get(participant, "teamPosition", "UNKNOWN")
        player_team_id == Get(participant, "teamId", 100)
        opponent_team_id == IF player_team_id = 100 THEN 200 ELSE 100
        lane_opponent_id == find_lane_opponent(participants, opponent_team_id, player_role)
        frames        == Get(Get(timeline_data, "info", EmptyDict), "frames", <<>>)
        ward_events   == collect_ward_events(frames, participant_id)
        IsKill(fe)    == Get(fe.event, "type", "") = "CHAMPION_KILL"
        kills         == SelectSeq(frame_events(frames), IsKill)
    IN IF idx = 0 \/ participant_id = 0
       THEN [raised |-> "None", value |-> <<>>]
       ELSE [raised |-> "None",
             value  |-> [i \in 1..Len(kills) |->
                           death_context(match_data, participants, participant,
                                         participant_id, lane_opponent_id, ward_events,
                                         kills[i].frame, kills[i].event)]]

\* The call's outcome: raised names the exception ("None" when it returns),
\* value is the returned list.  participantId 0 stands for a missing id (None):
\* both are falsy and neither equals a participant id of the timeline.
extract_deaths_from_match(match_data, timeline_data, puuid) ==
    LET info          == Get(match_data, "info", EmptyDict)
        participants  == Get(info, "participants", <<>>)
        idx           == find_participant(participants, puuid)
        participant   == IF idx = 0 THEN EmptyDict ELSE participants[idx]
        participant_id == Get(participant, "participantId", 0)
        player_role   == Get(participant, "teamPosition", "UNKNOWN")
        player_team_id == Get(participant, "teamId", 100)
        opponent_team_id == IF player_team_id = 100 THEN 200 ELSE 100
        lane_opponent_id == find_lane_opponent(participants, opponent_team_id, player_role)
        frames        == Get(Get(timeline_data, "info", EmptyDict), "frames", <<>>)
        ward_events   == collect_ward_events(frames, participant_id)
        IsDeath(fe)   == /\ Get(fe.event, "type", "") = "CHAMPION_KILL"
                         /\ Get(fe.event, "victimId", 0) = participant_id
        kills         == SelectSeq(frame_events(frames), IsDeath)
    IN IF idx = 0 \/ participant_id = 0
       THEN [raised |-> "None", value |-> <<>>]
       ELSE [raised |-> "None",
             value  |-> [i \in 1..Len(kills) |->
                           death_context(match_data, participants, participant,
                                         participant_id, lane_opponent_id, ward_events,
                                         kills[i].frame, kills[i].event)]]

----------------------------------------------------------------------------
(* Pattern detector *)

Take(s, n) == SubSeq(s, 1, IF Len(s) < n THEN Len(s) ELSE n)

\* an f-string description: its fixed text, the number and the name it interpolates
Description(text, n, who) == [text |-> text, n |-> n, who |-> who]

match_ids(ds) == [i \in 1..Len(ds) |-> ds[i].match_id]

\* sorted(deaths, key=lambda d: d.game_timestamp_ms): stable insertion sort
RECURSIVE insert_sorted(_, _)
insert_sorted(sorted, d) ==
    IF sorted = <<>> THEN <<d>>
    ELSE IF sorted[Len(sorted)].game_timestamp_ms <= d.game_timestamp_ms
         THEN Append(sorted, d)
         ELSE Append(insert_sorted(SubSeq(sorted, 1, Len(sorted) - 1), d),
                     sorted[Len(sorted)])

RECURSIVE sorted_by_timestamp(_)
sorted_by_timestamp(deaths) ==
    IF deaths = <<>> THEN <<>>
    ELSE insert_sorted(sorted_by_timestamp(SubSeq(deaths, 1, Len(deaths) - 1)),
                       deaths[Len(deaths)])

\* the loop of _cluster_by_time with a window that excludes its end point
RECURSIVE cluster_loop_strict(_, _, _, _)
cluster_loop_strict(rest, clusters, current_cluster, window_ms) ==
    IF rest = <<>>
    THEN (IF Len(current_cluster) > 1 THEN Append(clusters, current_cluster) ELSE clusters)
    ELSE LET death == Head(rest)
             last_death == current_cluster[Len(current_cluster)]
         IN IF death.game_timestamp_ms - last_death.game_timestamp_ms < window_ms
            THEN cluster_loop_strict(Tail(rest), clusters,
                                     Append(current_cluster, death), window_ms)
            ELSE cluster_loop_strict(Tail(rest),
                                     IF Len(current_cluster) > 1
                                         THEN Append(clusters, current_cluster) ELSE clusters,
                                     <<death>>, window_ms)

\* the loop of _cluster_by_time over sorted_deaths[1:]
RECURSIVE cluster_loop(_, _, _, _)
cluster_loop(rest, clusters, current_cluster, window_ms) ==
    IF rest = <<>>
    THEN (IF Len(current_cluster) > 1 THEN Append(clusters, current_cluster) ELSE clusters)
    ELSE LET death == Head(rest)
             last_death == current_cluster[Len(current_cluster)]
         IN IF death.game_timestamp_ms - last_death.game_timestamp_ms <= window_ms
            THEN cluster_loop(Tail(rest), clusters, Append(current_cluster, death), window_ms)
            ELSE cluster_loop(Tail(rest),
                              IF Len(current_cluster) > 1
                                  THEN Append(clusters, current_cluster) ELSE clusters,
                              <<death>>, window_ms)

_cluster_by_time(deaths, window_ms) ==
    IF deaths = <<>> THEN <<>>
    ELSE LET sorted_deaths == sorted_by_timestamp(deaths)
         IN cluster_loop(Tail(sorted_deaths), <<>>, <<Head(sorted_deaths)>>, window_ms)

\* the keys of killer_counts, in insertion order (first death by each killer)
RECURSIVE killer_order(_, _)
killer_order(deaths, seen) ==
    IF deaths = <<>> THEN seen
    ELSE killer_order(Tail(deaths),
                      IF \E i \in 1..Len(seen) : seen[i] = Head(deaths).killer_champion
                          THEN seen ELSE Append(seen, Head(deaths).killer_champion))

count_update_strict(key, category, text, ds, min_occurrences) ==
    IF Len(ds) > min_occurrences
    THEN <<[pattern_key      |-> key,
            pattern_category |-> category,
            description      |-> Description(text, Len(ds), ""),
            occurrences      |-> Len(ds),
            sample_death_ids |-> match_ids(Take(ds, 5))]>>
    ELSE <<>>

count_update(key, category, text, ds, min_occurrences) ==
    IF Len(ds) >= min_occurrences
    THEN <<[pattern_key      |-> key,
            pattern_category |-> category,
            description      |-> Description(text, Len(ds), ""),
            occurrences      |-> Len(ds),
            sample_death_ids |-> match_ids(Take(ds, 5))]>>
    ELSE <<>>

detect_patterns(deaths, existing_patterns, min_occurrences) ==
    LET RiverNoWard(d) == is_river_zone(d.map_zone) /\ ~d.had_ward_nearby
        Ahead(d)       == d.gold_diff > 500 \/ d.cs_diff > 15
        Early(d)       == d.game_phase = "early"
        Sidelane(d)    == /\ is_sidelane(d.map_zone)
                          /\ d.game_phase \in {"mid", "late"}
                          /\ d.death_type = "caught"
        TowerDive(d)   == d.death_type = "tower_dive"
        Overextend(d)  == ~d.had_ward_nearby /\ d.death_type \in {"gank", "caught"}
        time_clusters  == _cluster_by_time(SelectSeq(deaths, Early), 120000)
        cluster_update(cluster) ==
            IF Len(cluster) >= min_occurrences
            THEN <<[pattern_key      |-> "early_death_repeat",
                    pattern_category |-> "positioning",
                    description      |->
                        Description("Consistently dying around {} minutes into the game",
                            (SeqSum([i \in 1..Len(cluster) |-> cluster[i].game_timestamp_ms])
                                \div Len(cluster)) \div 60000, ""),
                    occurrences      |-> Len(cluster),
                    sample_death_ids |-> match_ids(Take(cluster, 5))]>>
            ELSE <<>>
        killers == killer_order(deaths, <<>>)
        killer_update(killer) ==
            LET ByKiller(d) == d.killer_champion = killer
                killer_deaths == SelectSeq(deaths, ByKiller)
            IN IF Len(killer_deaths) >= 3
               THEN <<[pattern_key      |-> "dies_to_same_champ",
                       pattern_category |-> "matchup",
                       description      |-> Description("Died to {} {} times",
                                                        Len(killer_deaths), killer),
                       occurrences      |-> Len(killer_deaths),
                       sample_death_ids |-> match_ids(Take(killer_deaths, 5))]>>
               ELSE <<>>
    IN IF deaths = <<>> THEN <<>>
       ELSE count_update("river_death_no_ward", "vision",
                         "Died in river {} times without ward coverage",
                         SelectSeq(deaths, RiverNoWard), min_occurrences)
         \o count_update("dies_when_ahead", "trading",
                         "Died {} times while ahead in lane",
                         SelectSeq(deaths, Ahead), min_occurrences)
         \o Concat([i \in 1..Len(time_clusters) |-> cluster_update(time_clusters[i])])
         \o count_update("caught_sidelane", "macro",
                         "Got caught while sidelaning {} times",
                         SelectSeq(deaths, Sidelane), min_occurrences)
         \o count_update("tower_dive_fail", "trading",
                         "Died to tower dive {} times",
                         SelectSeq(deaths, TowerDive), min_occurrences)
         \o count_update("overextend_no_vision", "vision",
                         "Overextended without vision {} times",
                         SelectSeq(deaths, Overextend), min_occurrences)
         \o Concat([i \in 1..Len(killers) |-> killer_update(killers[i])])

----------------------------------------------------------------------------
(* Pattern status manager and priority selector *)

_pattern_triggered_in_deaths(pattern_key, deaths) ==
    IF deaths = <<>> THEN FALSE
    ELSE IF pattern_key = "river_death_no_ward"
        THEN \E i \in 1..Len(deaths) :
                is_river_zone(deaths[i].map_zone) /\ ~deaths[i].had_ward_nearby
    ELSE IF pattern_key = "dies_when_ahead"
        THEN \E i \in 1..Len(deaths) : deaths[i].gold_diff > 500 \/ deaths[i].cs_diff > 15
    ELSE IF pattern_key = "early_death_repeat"
        THEN \E i \in 1..Len(deaths) : deaths[i].game_phase = "early"
    ELSE IF pattern_key = "caught_sidelane"
        THEN \E i \in 1..Len(deaths) :
                /\ is_sidelane(deaths[i].map_zone)
                /\ deaths[i].game_phase \in {"mid", "late"}
                /\ deaths[i].death_type = "caught"
    ELSE IF pattern_key = "tower_dive_fail"
        THEN \E i \in 1..Len(deaths) : deaths[i].death_type = "tower_dive"
    ELSE IF pattern_key = "overextend_no_vision"
        THEN \E i \in 1..Len(deaths) :
                ~deaths[i].had_ward_nearby /\ deaths[i].death_type \in {"gank", "caught"}
    ELSE FALSE

check_pattern_status_strict(pattern, recent_deaths, games_since_pattern) ==
    IF _pattern_triggered_in_deaths(Get(pattern, "pattern_key", ""), recent_deaths)
    THEN "active"
    ELSE IF games_since_pattern > 5 THEN "broken"
    ELSE IF games_since_pattern > 3 THEN "improving"
    ELSE "active"

check_pattern_status(pattern, recent_deaths, games_since_pattern) ==
    IF _pattern_triggered_in_deaths(Get(pattern, "pattern_key", ""), recent_deaths)
    THEN "active"
    ELSE IF games_since_pattern >= 5 THEN "broken"
    ELSE IF games_since_pattern >= 3 THEN "improving"
    ELSE "active"

\* priority_score(p) > priority_score(q), for occurrences / (games_since + 1)
\* with non-negative games_since: decided on the cross products, which is exact
\* for the float quotients of counters this small
score_greater(p, q) ==
    Get(p, "occurrences", 1) * (Get(q, "games_since_last", 0) + 1)
        > Get(q, "occurrences", 1) * (Get(p, "games_since_last", 0) + 1)

\* the position in patterns of the pattern max() returns; 0 stands for None
get_priority_pattern_any_status(patterns) ==
    IF patterns = <<>> THEN 0
    ELSE CHOOSE i \in 1..Len(patterns) :
            /\ \A j \in 1..Len(patterns) : ~score_greater(patterns[j], patterns[i])
            /\ \A j \in 1..(i - 1) : score_greater(patterns[i], patterns[j])

get_priority_pattern(patterns) ==
    LET active == {i \in 1..Len(patterns) : Get(patterns[i], "status", "") = "active"}
    IN IF patterns = <<>> \/ active = {} THEN 0
       ELSE CHOOSE i \in active :
               /\ \A j \in active : ~score_greater(patterns[j], patterns[i])
               /\ \A j \in active : j < i => score_greater(patterns[i], patterns[j])

----------------------------------------------------------------------------
(* Pattern repository: the patterns table *)

\* column defaults of the patterns table (schema.sql) taken by an INSERT that
\* does not name the column
schema_defaults == [games_since_last |-> 0, status |-> "active", improvement_streak |-> 0]

get_by_key_none(table, player_id, pattern_key) == 0

\* position of the row fetch_one returns for (player_id, pattern_key); 0 stands for None
get_by_key(table, player_id, pattern_key) ==
    LET hits == {i \in 1..Len(table) :
                    table[i].player_id = player_id /\ table[i].pattern_key = pattern_key}
    IN IF hits = {} THEN 0 ELSE CHOOSE i \in hits : \A j \in hits : i <= j

upsert_update_keep_status(existing, pattern_data) ==
    [existing EXCEPT
        !.occurrences      = Get(pattern_data, "occurrences", existing.occurrences),
        !.description      = Get(pattern_data, "description", existing.description),
        !.last_match_id    = Get(pattern_data, "last_match_id", "None"),
        !.games_since_last = 0,
        !.sample_death_ids = Get(pattern_data, "sample_death_ids", <<>>)]

\* the UPDATE branch of upsert
upsert_update(existing, pattern_data) ==
    [existing EXCEPT
        !.occurrences      = Get(pattern_data, "occurrences", existing.occurrences),
        !.description      = Get(pattern_data, "description", existing.description),
        !.last_match_id    = Get(pattern_data, "last_match_id", "None"),
        !.games_since_last = 0,
        !.status           = Get(pattern_data, "status", "active"),
        !.sample_death_ids = Get(pattern_data, "sample_death_ids", <<>>)]

\* the INSERT branch of upsert; lastrowid is the next rowid (no row is ever deleted)
upsert_insert(table, player_id, pattern_key, pattern_data) ==
    [id                 |-> Len(table) + 1,
     player_id          |-> player_id,
     pattern_key        |-> pattern_key,
     pattern_category   |-> Get(pattern_data, "pattern_category", "general"),
     description        |-> pattern_data.description,
     occurrences        |-> Get(pattern_data, "occurrences", 1),
     last_match_id      |-> Get(pattern_data, "last_match_id", "None"),
     sample_death_ids   |-> Get(pattern_data, "sample_death_ids", <<>>),
     games_since_last   |-> schema_defaults.games_since_last,
     status             |-> schema_defaults.status,
     improvement_streak |-> schema_defaults.improvement_streak]

\* PatternRepository.upsert: the table after the call.  sample_death_ids is
\* stored as json.dumps of a list of match ids and read back with json.loads,
\* which returns an equal list.
upsert(table, player_id, pattern_key, pattern_data) ==
    LET existing == get_by_key(table, player_id, pattern_key)
    IN IF existing # 0
       THEN [i \in 1..Len(table) |->
               IF table[i].id = table[existing].id
                   THEN upsert_update(table[existing], pattern_data)
                   ELSE table[i]]
       ELSE Append(table, upsert_insert(table, player_id, pattern_key, pattern_data))

update_status(table, pattern_id, status, games_since_last) ==
    [i \in 1..Len(table) |->
        IF table[i].id = pattern_id
        THEN [table[i] EXCEPT
                !.status = status,
                !.games_since_last = games_since_last,
                !.improvement_streak =
                    IF games_since_last > 0 THEN table[i].improvement_streak + 1 ELSE 0]
        ELSE table[i]]

increment_games_since(table, player_id) ==
    [i \in 1..Len(table) |->
        IF table[i].player_id = player_id
        THEN [table[i] EXCEPT !.games_since_last = table[i].games_since_last + 1]
        ELSE table[i]]

\* get_all: the player's rows (ORDER BY last_seen_at; detect_patterns does not read them)
get_all(table, player_id) ==
    LET Mine(r) == r.player_id = player_id IN SelectSeq(table, Mine)

\* ORDER BY occurrences DESC over the rows in rowid order
RECURSIVE insert_by_occurrences(_, _)
insert_by_occurrences(sorted, r) ==
    IF sorted = <<>> THEN <<r>>
    ELSE IF sorted[Len(sorted)].occurrences >= r.occurrences
         THEN Append(sorted, r)
         ELSE Append(insert_by_occurrences(SubSeq(sorted, 1, Len(sorted) - 1), r),
                     sorted[Len(sorted)])

RECURSIVE order_by_occurrences_desc(_)
order_by_occurrences_desc(rows) ==
    IF rows = <<>> THEN <<>>
    ELSE insert_by_occurrences(order_by_occurrences_desc(SubSeq(rows, 1, Len(rows) - 1)),
                               rows[Len(rows)])

get_active(table, player_id) ==
    LET Mine(r) == r.player_id = player_id /\ r.status \in {"active", "improving"}
    IN order_by_occurrences_desc(SelectSeq(table, Mine))

----------------------------------------------------------------------------
(* Match and death repositories, and step 5 of analyze_player that fills them *)

\* position of the row fetch_one returns for this Riot match id; 0 stands for None
get_by_match_id(mtable, match_id) ==
    LET hits == {i \in 1..Len(mtable) : mtable[i].match_id = match_id}
    IN IF hits = {} THEN 0 ELSE CHOOSE i \in hits : \A j \in hits : i <= j

\* MatchRepository.get_or_create: the table after the call
get_or_create(mtable, match_id, player_id, champion, role, stats) ==
    IF get_by_match_id(mtable, match_id) # 0 THEN mtable
    ELSE Append(mtable, [id |-> Len(mtable) + 1, match_id |-> match_id,
                         player_id |-> player_id, champion |-> champion,
                         role |-> role] @@ stats)

\* column sets of the deaths table under a UNIQUE constraint (schema.sql): none
deaths_unique_keys == {}

\* DeathRepository.insert: a plain INSERT, refused only by a constraint of the table
death_insert(dtable, death_data) ==
    IF \E key \in deaths_unique_keys : \E i \in 1..Len(dtable) :
            \A col \in key : dtable[i][col] = death_data[col]
    THEN dtable
    ELSE Append(dtable,
                [col \in (DOMAIN death_data \ {"match_id"}) \cup {"id"} |->
                    IF col = "id" THEN Len(dtable) + 1 ELSE death_data[col]])

\* for death in deaths: death_data = death.to_dict() plus the two ids; insert
RECURSIVE insert_deaths(_, _, _, _)
insert_deaths(dtable, deaths, match_db_id, player_id) ==
    IF deaths = <<>> THEN dtable
    ELSE insert_deaths(
            death_insert(dtable, Head(deaths) @@ [match_db_id |-> match_db_id,
                                                   player_id   |-> player_id]),
            Tail(deaths), match_db_id, player_id)

\* one iteration of the loop over matches in step 5
store_match(st, match, player_id, puuid) ==
    LET match_info   == Get(match, "info", EmptyDict)
        match_id     == Get(Get(match, "metadata", EmptyDict), "matchId", "unknown")
        participants == Get(match_info, "participants", <<>>)
        idx          == find_participant(participants, puuid)
        me           == IF idx = 0 THEN EmptyDict ELSE participants[idx]
        stats == [win               |-> Get(me, "win", FALSE),
                  kills             |-> Get(me, "kills", 0),
                  deaths            |-> Get(me, "deaths", 0),
                  assists           |-> Get(me, "assists", 0),
                  cs                |-> Get(me, "totalMinionsKilled", 0)
                                          + Get(me, "neutralMinionsKilled", 0),
                  vision_score      |-> Get(me, "visionScore", 0),
                  game_duration_sec |-> Get(match_info, "gameDuration", 0)]
        mtable   == get_or_create(st.matches, match_id, player_id,
                                  Get(me, "championName", "Unknown"),
                                  Get(me, "teamPosition", "UNKNOWN"), stats)
        db_match == mtable[get_by_match_id(mtable, match_id)]
        deaths   == IF "timeline" \in DOMAIN match
                    THEN extract_deaths_from_match(match, match.timeline, puuid).value
                    ELSE <<>>
    IN [matches |-> mtable,
        deaths  |-> insert_deaths(st.deaths, deaths, db_match.id, player_id)]

RECURSIVE store_matches(_, _, _, _)
store_matches(matches, st, player_id, puuid) ==
    IF matches = <<>> THEN st
    ELSE store_matches(Tail(matches), store_match(st, Head(matches), player_id, puuid),
                       player_id, puuid)

----------------------------------------------------------------------------
(* Matches the Riot API may return for the subject (shape of               *)
(* tests/fixtures/sample_matches.py)                                       *)

MaxMatches == 2     \* matches fetched by one analysis pass
MaxPasses  == 3     \* analysis passes of one exploration
MaxOps     == 4     \* repository calls of one exploration

Players == {1, 2}   \* player["id"] values

Subject == "puuid-me"

PoolParticipants ==
    <<[puuid |-> Subject,    participantId |-> 1, teamId |-> 100,
       teamPosition |-> "MIDDLE", championName |-> "Ahri"],
      [puuid |-> "puuid-2",  participantId |-> 2, teamId |-> 200,
       teamPosition |-> "MIDDLE", championName |-> "Zed"],
      [puuid |-> "puuid-3",  participantId |-> 3, teamId |-> 200,
       teamPosition |-> "JUNGLE", championName |-> "LeeSin"],
      [puuid |-> "puuid-4",  participantId |-> 4, teamId |-> 200,
       teamPosition |-> "TOP", championName |-> "Lux"]>>

Kill(ts, killer, assists, x, y) ==
    [type |-> "CHAMPION_KILL", timestamp |-> ts, killerId |-> killer, victimId |-> 1,
     assistingParticipantIds |-> assists, position |-> [x |-> x, y |-> y]]

Ward(ts, x, y) ==
    [type |-> "WARD_PLACED", timestamp |-> ts, creatorId |-> 1,
     position |-> [x |-> x, y |-> y]]

Snapshot(gold1, gold2) ==
    [k \in {"1", "2"} |->
        [totalGold |-> IF k = "1" THEN gold1 ELSE gold2,
         minionsKilled |-> 40, jungleMinionsKilled |-> 0, level |-> 6]]

PoolMatch(id, frames) ==
    [metadata |-> [matchId |-> id],
     info     |-> [participants |-> PoolParticipants],
     timeline |-> [info |-> [frames |-> frames]]]

\* two early river deaths without ward, one minute apart, both to Zed
Match1 == PoolMatch("BR1_1",
    <<[timestamp |-> 300000, participantFrames |-> Snapshot(2000, 1900),
       events |-> <<Kill(300000, 2, <<>>, 4000, 9000)>>],
      [timestamp |-> 360000, participantFrames |-> Snapshot(2300, 2400),
       events |-> <<Kill(360000, 2, <<>>, 9000, 4500)>>]>>)

\* two mid-game ganks by Zed with the enemy jungler, no ward
Match2 == PoolMatch("BR1_2",
    <<[timestamp |-> 720000, participantFrames |-> Snapshot(5000, 5200),
       events |-> <<Kill(700000, 2, <<3>>, 6000, 3000)>>],
      [timestamp |-> 900000, participantFrames |-> Snapshot(6000, 6500),
       events |-> <<Kill(890000, 2, <<3>>, 6000, 3000)>>]>>)

\* three late solo deaths to Lux, the first one next to a fresh ward
Match3 == PoolMatch("BR1_3",
    <<[timestamp |-> 1320000, participantFrames |-> Snapshot(9000, 9000),
       events |-> <<Ward(1290000, 3000, 6000), Kill(1300000, 4, <<>>, 3000, 6500),
                    Kill(1310000, 4, <<>>, 3000, 6500)>>],
      [timestamp |-> 1500000, participantFrames |-> Snapshot(9500, 9900),
       events |-> <<Kill(1490000, 4, <<>>, 12000, 9000)>>]>>)

\* a game without deaths of the subject
Match4 == PoolMatch("BR1_4",
    <<[timestamp |-> 300000, participantFrames |-> Snapshot(2000, 1900),
       events |-> <<[type |-> "CHAMPION_KILL", timestamp |-> 290000, killerId |-> 1,
                     victimId |-> 2, assistingParticipantIds |-> <<>>,
                     position |-> [x |-> 7000, y |-> 7000]]>>]>>)

MatchPool == {Match1, Match2, Match3, Match4}

\* get_recent_matches_with_details: distinct matches, at most MaxMatches
MatchLists == DistinctSeqsUpTo(MatchPool, MaxMatches)

\* all_deaths of analyze_player after step 5, for the fetched matches
extracted_deaths(matches) ==
    Concat([i \in 1..Len(matches) |->
              IF "timeline" \in DOMAIN matches[i]
              THEN extract_deaths_from_match(matches[i], matches[i].timeline, Subject).value
              ELSE <<>>])

\* the updates detect_patterns can hand to upsert
UpdatePool ==
    UNION {Range(detect_patterns(extracted_deaths(ms), <<>>, 2)) : ms \in MatchLists}

Statuses == {"active", "improving", "broken"}

\* games_since_last arguments of a direct update_status call: a reset and a count
GamesSinceArgs == {0, 5}

NoOp == [op |-> "none", player_id |-> 0, pattern_key |-> "", pattern_id |-> 0,
         pattern_data |-> <<>>, status |-> "", games_since_last |-> 0]

----------------------------------------------------------------------------
(* analyze_player: the analysis pass (steps 5 and 6), one action per await   *)

IdleCall == fn = "" /\ args = <<>> /\ ret = <<>> /\ calls = 0

Init ==
    /\ IdleCall
    /\ db_patterns = <<>> /\ db_matches = <<>> /\ db_deaths = <<>>
    /\ pc = "idle" /\ player = 0 /\ all_deaths = <<>> /\ pattern_updates = <<>>
    /\ triggered = {} /\ passes = 0 /\ priority_pattern = <<>>
    /\ lastOp = NoOp /\ before = <<>> /\ tasks = <<>>
    /\ sessions = <<>> /\ profile = <<>>

\* step 5: the deaths of the fetched matches
ExtractDeaths(pl, matches) ==
    /\ pc = "idle" /\ passes < MaxPasses
    /\ player' = pl
    /\ all_deaths' = extracted_deaths(matches)
    /\ LET stored == store_matches(matches, [matches |-> db_matches, deaths |-> db_deaths],
                                   pl, Subject)
       IN db_matches' = stored.matches /\ db_deaths' = stored.deaths
    /\ pc' = "detect"
    /\ triggered' = {}
    /\ UNCHANGED <<botVars, tasks, callVars, repoVars, pattern_updates, passes, priority_pattern>>

\* step 6: existing_patterns = get_all(...); pattern_updates = detect_patterns(...)
DetectPatterns ==
    /\ pc = "detect"
    /\ pattern_updates' = detect_patterns(all_deaths, get_all(db_patterns, player), 2)
    /\ pc' = "upsert"
    /\ UNCHANGED <<botVars, tasks, callVars, repoVars, storeVars, player, all_deaths, triggered, passes,
                   priority_pattern>>

\* one iteration of: for update in pattern_updates: await pattern_repo.upsert(...)
UpsertUpdate ==
    /\ pc = "upsert" /\ pattern_updates # <<>>
    /\ LET update == Head(pattern_updates)
       IN /\ db_patterns' = upsert(db_patterns, player, update.pattern_key, update)
          /\ lastOp' = [NoOp EXCEPT !.op = "upsert", !.player_id = player,
                                    !.pattern_key = update.pattern_key,
                                    !.pattern_data = <<update>>]
          /\ triggered' = triggered \cup {update.pattern_key}
    /\ before' = db_patterns
    /\ pattern_updates' = Tail(pattern_updates)
    /\ UNCHANGED <<botVars, tasks, callVars, storeVars, pc, player, all_deaths, passes, priority_pattern>>

\* await pattern_repo.increment_games_since(player["id"])
AgeAll ==
    /\ pc = "upsert" /\ pattern_updates = <<>>
    /\ db_patterns' = increment_games_since(db_patterns, player)
    /\ lastOp' = [NoOp EXCEPT !.op = "increment_games_since", !.player_id = player]
    /\ before' = db_patterns
    /\ pc' = "select"
    /\ UNCHANGED <<botVars, tasks, callVars, storeVars, player, all_deaths, pattern_updates, triggered, passes,
                   priority_pattern>>

\* active_patterns = get_active(...); priority_pattern = get_priority_pattern(active_patterns)
SelectPriority ==
    /\ pc = "select"
    /\ LET active_patterns == get_active(db_patterns, player)
           chosen == get_priority_pattern(active_patterns)
       IN priority_pattern' = IF chosen = 0 THEN <<>> ELSE <<active_patterns[chosen]>>
    /\ pc' = "idle"
    /\ passes' = passes + 1
    /\ all_deaths' = <<>>
    /\ UNCHANGED <<botVars, tasks, callVars, repoVars, storeVars, player, pattern_updates, triggered>>

Next ==
    \/ \E pl \in Players, ms \in MatchLists : ExtractDeaths(pl, ms)
    \/ DetectPatterns
    \/ UpsertUpdate
    \/ AgeAll
    \/ SelectPriority

Spec == Init /\ [][Next]_vars

\* a pass has just completed
PassDone == pc = "idle" /\ passes > 0

----------------------------------------------------------------------------
(* The repository called directly, one call at a time, in any order *)

RepoUpsert(pl, update) ==
    /\ calls < MaxOps
    /\ db_patterns' = upsert(db_patterns, pl, update.pattern_key, update)
    /\ lastOp' = [NoOp EXCEPT !.op = "upsert", !.player_id = pl,
                              !.pattern_key = update.pattern_key,
                              !.pattern_data = <<update>>]
    /\ before' = db_patterns
    /\ calls' = calls + 1
    /\ UNCHANGED <<botVars, tasks, fn, args, ret, passVars, storeVars>>

RepoUpdateStatus(pattern_id, status, games_since_last) ==
    /\ calls < MaxOps
    /\ db_patterns' = update_status(db_patterns, pattern_id, status, games_since_last)
    /\ lastOp' = [NoOp EXCEPT !.op = "update_status", !.pattern_id = pattern_id,
                              !.status = status, !.games_since_last = games_since_last]
    /\ before' = db_patterns
    /\ calls' = calls + 1
    /\ UNCHANGED <<botVars, tasks, fn, args, ret, passVars, storeVars>>

RepoIncrementGamesSince(pl) ==
    /\ calls < MaxOps
    /\ db_patterns' = increment_games_since(db_patterns, pl)
    /\ lastOp' = [NoOp EXCEPT !.op = "increment_games_since", !.player_id = pl]
    /\ before' = db_patterns
    /\ calls' = calls + 1
    /\ UNCHANGED <<botVars, tasks, fn, args, ret, passVars, storeVars>>

NextRepo ==
    \/ \E pl \in Players, update \in UpdatePool : RepoUpsert(pl, update)
    \/ \E id \in 1..Len(db_patterns), status \in Statuses, gs \in GamesSinceArgs :
          RepoUpdateStatus(id, status, gs)
    \/ \E pl \in Players : RepoIncrementGamesSince(pl)

SpecRepo == Init /\ [][NextRepo]_vars

----------------------------------------------------------------------------
(* Claims about the analysis pass and the repository *)

\* rows of the table that belong to the player of the running pass
PassRows == {i \in 1..Len(db_patterns) : db_patterns[i].player_id = player}

\* C2: after every analysis pass, a persisted pattern that did not retrigger
\* in the pass carries the status recomputed from its games-since-last counter:
\* active below 3, improving from 3, broken from 5.
C2_StatusRecomputedEveryPass ==
    PassDone =>
        \A i \in PassRows :
            db_patterns[i].pattern_key \notin triggered =>
                db_patterns[i].status =
                    (IF db_patterns[i].games_since_last >= 5 THEN "broken"
                     ELSE IF db_patterns[i].games_since_last >= 3 THEN "improving"
                     ELSE "active")

\* C5: the table never holds two rows for one (player_id, pattern_key), and a
\* repository call never removes or re-keys a row.
C5_OneRowPerKey ==
    /\ \A i, j \in 1..Len(db_patterns) :
          (/\ db_patterns[i].player_id = db_patterns[j].player_id
           /\ db_patterns[i].pattern_key = db_patterns[j].pattern_key) => i = j
    /\ Len(db_patterns) >= Len(before)
    /\ \A i \in 1..Len(before) :
          /\ db_patterns[i].id = before[i].id
          /\ db_patterns[i].player_id = before[i].player_id
          /\ db_patterns[i].pattern_key = before[i].pattern_key

\* after MaxOps calls the last one, an upsert, found its key present in a table
\* that holds one pattern key for both players
C5_Witness ==
    /\ calls = MaxOps
    /\ lastOp.op = "upsert"
    /\ \E i \in 1..Len(before) :
          before[i].player_id = lastOp.player_id /\ before[i].pattern_key = lastOp.pattern_key
    /\ Len(db_patterns) >= 3
    /\ \E i, j \in 1..Len(db_patterns) :
          i # j /\ db_patterns[i].pattern_key = db_patterns[j].pattern_key

\* C6: an upsert on an existing row leaves it with games_since_last 0, status
\* active, and the update's occurrences and description; every other row is as
\* it was.
C6_UpsertResetsExistingRow ==
    lastOp.op = "upsert" =>
        \A i \in 1..Len(before) :
            IF before[i].player_id = lastOp.player_id
                   /\ before[i].pattern_key = lastOp.pattern_key
            THEN /\ db_patterns[i].games_since_last = 0
                 /\ db_patterns[i].status = "active"
                 /\ db_patterns[i].occurrences = lastOp.pattern_data[1].occurrences
                 /\ db_patterns[i].description = lastOp.pattern_data[1].description
                 /\ Len(db_patterns) = Len(before)
            ELSE db_patterns[i] = before[i]

\* an upsert has hit a row that was improving or broken with a counter above 0,
\* next to a row of another player
C6_Witness ==
    /\ lastOp.op = "upsert"
    /\ \E i, j \in 1..Len(before) :
          /\ before[i].player_id = lastOp.player_id
          /\ before[i].pattern_key = lastOp.pattern_key
          /\ before[i].status \in {"improving", "broken"}
          /\ before[i].games_since_last > 0
          /\ before[i].occurrences # lastOp.pattern_data[1].occurrences
          /\ before[j].player_id # lastOp.player_id

\* C7: when a pass ends, every pattern that triggered in it has
\* games_since_last = 0.
C7_TriggeredPatternsAtZero ==
    PassDone =>
        \A i \in PassRows :
            db_patterns[i].pattern_key \in triggered => db_patterns[i].games_since_last = 0

\* C8: an upsert never lowers the occurrences of a row that existed before it.
C8_OccurrencesNeverDecrease ==
    lastOp.op = "upsert" =>
        \A i \in 1..Len(before) : db_patterns[i].occurrences >= before[i].occurrences

\* C9: the age-all step that closes a game's analysis raises by one the
\* improvement_streak of every pattern of the player that did not trigger in it.
C9_StreakCountsQuietGames ==
    (pc = "select" /\ lastOp.op = "increment_games_since") =>
        \A i \in PassRows :
            db_patterns[i].pattern_key \notin triggered =>
                db_patterns[i].improvement_streak = before[i].improvement_streak + 1

----------------------------------------------------------------------------
(* Calls of the pure functions on bounded inputs *)

MaxCalls        == 2   \* evaluations of one call on the same arguments
NumParticipants == 3   \* participants of a roster handed to the classifier
MaxAssists      == 2   \* assistingParticipantIds of a kill event
MaxGamesSince   == 6   \* games_since_pattern handed to check_pattern_status
MaxPatterns     == 3   \* patterns handed to get_priority_pattern
MaxEvents       == 3   \* events of a generated timeline

IdlePass ==
    /\ db_patterns = <<>> /\ db_matches = <<>> /\ db_deaths = <<>>
    /\ pc = "idle" /\ player = 0 /\ all_deaths = <<>> /\ pattern_updates = <<>>
    /\ triggered = {} /\ passes = 0 /\ priority_pattern = <<>>
    /\ lastOp = NoOp /\ before = <<>> /\ tasks = <<>>
    /\ sessions = <<>> /\ profile = <<>>

(* _classify_death_type *)

ClassifyRosters ==
    {[i \in 1..NumParticipants |->
        [participantId |-> i, teamId |-> t[i], teamPosition |-> r[i]]] :
        t \in [1..NumParticipants -> {100, 200}],
        r \in [1..NumParticipants -> {"JUNGLE", "MIDDLE"}]}

InitClassify ==
    /\ fn = "_classify_death_type"
    /\ args \in [killer_id      : 0..NumParticipants,
                 assisting_ids  : DistinctSeqsUpTo(1..NumParticipants, MaxAssists),
                 participants   : ClassifyRosters,
                 player_team_id : {100, 200}]
    /\ ret = "" /\ calls = 0
    /\ IdlePass

CallClassify ==
    /\ fn = "_classify_death_type" /\ calls < MaxCalls
    /\ ret' = _classify_death_type(args.killer_id, args.assisting_ids, <<0, 0>>,
                                   args.participants, EmptyDict, args.player_team_id)
    /\ calls' = calls + 1
    /\ UNCHANGED <<botVars, tasks, fn, args, passVars, repoVars, storeVars>>

NextClassify == CallClassify

SpecClassify == InitClassify /\ [][NextClassify]_vars

(* check_pattern_status *)

\* a late death, caught in the top lane by two enemies while 1000 gold ahead
Match5 == PoolMatch("BR1_5",
    <<[timestamp |-> 1320000, participantFrames |-> Snapshot(9000, 8000),
       events |-> <<Kill(1300000, 2, <<4>>, 1000, 9000)>>]>>)

\* the deaths of the most recent game
RecentDeaths == {extracted_deaths(<<m>>) : m \in MatchPool \cup {Match5}}

InitStatus ==
    /\ fn = "check_pattern_status"
    /\ args \in [pattern             : [pattern_key : PatternKey],
                 recent_deaths       : RecentDeaths,
                 games_since_pattern : 0..MaxGamesSince]
    /\ ret = "" /\ calls = 0
    /\ IdlePass

CallStatus ==
    /\ fn = "check_pattern_status" /\ calls < MaxCalls
    /\ ret' = check_pattern_status(args.pattern, args.recent_deaths,
                                   args.games_since_pattern)
    /\ calls' = calls + 1
    /\ UNCHANGED <<botVars, tasks, fn, args, passVars, repoVars, storeVars>>

NextStatus == CallStatus

SpecStatus == InitStatus /\ [][NextStatus]_vars

(* get_priority_pattern *)

PriorityPatterns ==
    [occurrences : {2, 3, 10}, games_since_last : {0, 4, 9}, status : Statuses]

InitPriority ==
    /\ fn = "get_priority_pattern"
    /\ args \in [patterns : SeqsUpTo(PriorityPatterns, MaxPatterns)]
    /\ ret = 0 /\ calls = 0
    /\ IdlePass

CallPriority ==
    /\ fn = "get_priority_pattern" /\ calls = 0
    /\ ret' = get_priority_pattern(args.patterns)
    /\ calls' = calls + 1
    /\ UNCHANGED <<botVars, tasks, fn, args, passVars, repoVars, storeVars>>

NextPriority == CallPriority

SpecPriority == InitPriority /\ [][NextPriority]_vars

(* extract_deaths_from_match *)

\* rosters: the subject present or not, with or without a role, and the
\* opposing mid laner with the same or another role
ExtractRosters ==
    {[PoolParticipants EXCEPT ![1].puuid = pu, ![1].teamPosition = role,
                              ![2].teamPosition = opp] :
        pu \in {Subject, "puuid-1"}, role \in {"MIDDLE", ""}, opp \in {"MIDDLE", "BOTTOM"}}

ExtractEvents ==
    {Kill(300000, 2, <<>>, 4000, 9000),
     Kill(310000, 2, <<3, 4>>, 4000, 9000),
     [type |-> "CHAMPION_KILL", victimId |-> 1],
     Ward(290000, 4000, 9500),
     [type |-> "CHAMPION_KILL", timestamp |-> 305000, killerId |-> 1, victimId |-> 2,
      assistingParticipantIds |-> <<>>, position |-> [x |-> 7000, y |-> 7000]],
     [type |-> "ITEM_PURCHASED", timestamp |-> 300500, participantId |-> 1]}

\* two frames holding at most MaxEvents events between them; the second frame
\* carries no participantFrames
ExtractTimelines ==
    UNION {{[info |-> [frames |->
               <<[timestamp |-> 300000, participantFrames |-> Snapshot(2600, 2000),
                  events |-> SubSeq(evs, 1, split)],
                 [timestamp |-> 360000, events |-> SubSeq(evs, split + 1, Len(evs))]>>]] :
             split \in 0..Len(evs)} :
           evs \in SeqsUpTo(ExtractEvents, MaxEvents)}

InitExtract ==
    /\ fn = "extract_deaths_from_match"
    /\ \E roster \in ExtractRosters, tl \in ExtractTimelines :
          args = [match_data    |-> [metadata |-> [matchId |-> "BR1_9"],
                                     info     |-> [participants |-> roster]],
                  timeline_data |-> tl,
                  puuid         |-> Subject]
    /\ ret = [raised |-> "None", value |-> <<>>] /\ calls = 0
    /\ IdlePass

CallExtract ==
    /\ fn = "extract_deaths_from_match" /\ calls = 0
    /\ ret' = extract_deaths_from_match(args.match_data, args.timeline_data, args.puuid)
    /\ calls' = calls + 1
    /\ UNCHANGED <<botVars, tasks, fn, args, passVars, repoVars, storeVars>>

NextExtract == CallExtract

SpecExtract == InitExtract /\ [][NextExtract]_vars

----------------------------------------------------------------------------
(* Claims about the pure functions *)

SubjectInMatch ==
    \E i \in 1..Len(args.match_data.info.participants) :
        args.match_data.info.participants[i].puuid = args.puuid

\* C1: when the subject is not among the match's participants, the call does
\* not come back as a plain empty death list: it ends in a failure.
C1_AbsentPlayerFails ==
    (fn = "extract_deaths_from_match" /\ calls > 0 /\ ~SubjectInMatch) =>
        ~(ret.raised = "None" /\ ret.value = <<>>)

\* C3: check_pattern_status is active whenever the pattern's trigger matches in
\* recent_deaths; otherwise broken from 5 games, improving from 3, else active,
\* on every evaluation.
C3_StatusThresholds ==
    (fn = "check_pattern_status" /\ calls > 0) =>
        LET hit == _pattern_triggered_in_deaths(args.pattern.pattern_key, args.recent_deaths)
            gs  == args.games_since_pattern
        IN /\ hit => ret = "active"
           /\ (~hit /\ gs >= 5) => ret = "broken"
           /\ (~hit /\ 3 <= gs /\ gs < 5) => ret = "improving"
           /\ (~hit /\ gs < 3) => ret = "active"

\* recomputed MaxCalls times with games_since = 5 and no trigger: broken
C3_Witness ==
    /\ fn = "check_pattern_status" /\ calls = MaxCalls
    /\ args.games_since_pattern = 5
    /\ ~_pattern_triggered_in_deaths(args.pattern.pattern_key, args.recent_deaths)
    /\ args.recent_deaths # <<>>
    /\ ret = "broken"

ActiveIndexes == {i \in 1..Len(args.patterns) : args.patterns[i].status = "active"}

\* occurrences / (games_since_last + 1) of p is at least that of q
ScoreAtLeast(p, q) ==
    p.occurrences * (q.games_since_last + 1) >= q.occurrences * (p.games_since_last + 1)

\* C4: get_priority_pattern returns None when no pattern is active, otherwise
\* the first active pattern, in input order, of maximal
\* occurrences / (games_since_last + 1); never a pattern that is not active.
C4_PriorityIsFirstBestActive ==
    (fn = "get_priority_pattern" /\ calls > 0) =>
        /\ ActiveIndexes = {} => ret = 0
        /\ ActiveIndexes # {} =>
              /\ ret \in ActiveIndexes
              /\ \A j \in ActiveIndexes : ScoreAtLeast(args.patterns[ret], args.patterns[j])
              /\ \A j \in ActiveIndexes :
                    j < ret => ~ScoreAtLeast(args.patterns[j], args.patterns[ret])
        /\ args.patterns = <<[occurrences |-> 10, games_since_last |-> 9, status |-> "active"],
                             [occurrences |-> 3, games_since_last |-> 0, status |-> "active"]>>
              => ret = 2

\* an improving pattern with 10 occurrences and the 10-in-9-games active pattern
\* both lose to the active pattern with 3 occurrences and games_since_last 0
C4_Witness ==
    /\ fn = "get_priority_pattern" /\ calls > 0
    /\ args.patterns = <<[occurrences |-> 10, games_since_last |-> 0, status |-> "improving"],
                         [occurrences |-> 10, games_since_last |-> 9, status |-> "active"],
                         [occurrences |-> 3, games_since_last |-> 0, status |-> "active"]>>
    /\ ret = 3

\* killer or an assister is an opposing participant with role JUNGLE
JunglerInvolved ==
    \E i \in 1..Len(args.participants) :
        /\ args.participants[i].teamId # args.player_team_id
        /\ args.participants[i].teamPosition = "JUNGLE"
        /\ \/ args.participants[i].participantId = args.killer_id
           \/ args.participants[i].participantId \in Range(args.assisting_ids)

\* C10: with n = 1 + number of assisters: n >= 2 with the jungler involved is a
\* gank; otherwise n = 1 is a solo kill, n >= 3 a teamfight and n = 2 caught,
\* on every evaluation.
C10_ClassificationRules ==
    (fn = "_classify_death_type" /\ calls > 0) =>
        LET n == 1 + Len(args.assisting_ids)
        IN /\ (n >= 2 /\ JunglerInvolved) => ret = "gank"
           /\ n = 1 => ret = "solo_kill"
           /\ (n >= 3 /\ ~JunglerInvolved) => ret = "teamfight"
           /\ (n = 2 /\ ~JunglerInvolved) => ret = "caught"

\* evaluated MaxCalls times on a lone kill by the enemy jungler: a solo kill
C10_Witness ==
    /\ fn = "_classify_death_type" /\ calls = MaxCalls
    /\ args.assisting_ids = <<>>
    /\ JunglerInvolved
    /\ ret = "solo_kill"

\* C11 as stated: a death with 3 or more enemies involved (killer plus at least
\* 2 assisters) is a teamfight, whether or not the enemy jungler is among them.
C11_TeamfightRegardlessOfJungler ==
    (fn = "_classify_death_type" /\ calls > 0 /\ 1 + Len(args.assisting_ids) >= 3) =>
        ret = "teamfight"

\* C11 amended: a death with 3 or more enemies involved is a teamfight when no
\* enemy jungler is the killer or an assister, and a gank when one is.
C11_TeamfightUnlessJungler ==
    (fn = "_classify_death_type" /\ calls > 0 /\ 1 + Len(args.assisting_ids) >= 3) =>
        ret = (IF JunglerInvolved THEN "gank" ELSE "teamfight")

\* three enemies, none of them an opposing jungler, one assister carrying the
\* JUNGLE role on the player's own team id: a teamfight
C11_Witness ==
    /\ fn = "_classify_death_type" /\ calls > 0
    /\ 1 + Len(args.assisting_ids) >= 3
    /\ ~JunglerInvolved
    /\ \E i \in 1..Len(args.participants) :
          /\ args.participants[i].teamPosition = "JUNGLE"
          /\ args.participants[i].participantId \in Range(args.assisting_ids)
    /\ ret = "teamfight"

\* C12: no extracted death is typed tower_dive or unknown, so detect_patterns
\* emits no tower_dive_fail update for the extracted deaths (whatever the
\* threshold) and the tower_dive_fail trigger never matches on them.
C12_TowerDiveNeverProduced ==
    (fn = "extract_deaths_from_match" /\ calls > 0) =>
        /\ \A i \in 1..Len(ret.value) :
              ret.value[i].death_type \notin {"tower_dive", "unknown"}
        /\ \A m \in 1..2 :
              \A u \in Range(detect_patterns(ret.value, <<>>, m)) :
                  u.pattern_key # "tower_dive_fail"
        /\ ~_pattern_triggered_in_deaths("tower_dive_fail", ret.value)
        /\ check_pattern_status([pattern_key |-> "tower_dive_fail"], ret.value, 5) = "broken"

\* three deaths were extracted, of two types, one of them from a kill event
\* without position, and detect_patterns emits updates for them
C12_Witness ==
    /\ fn = "extract_deaths_from_match" /\ calls > 0
    /\ Len(ret.value) = 3
    /\ {ret.value[i].death_type : i \in 1..Len(ret.value)} = {"solo_kill", "gank"}
    /\ \E i \in 1..Len(ret.value) : ret.value[i].map_zone = "base_blue"
    /\ detect_patterns(ret.value, <<>>, 2) # <<>>

----------------------------------------------------------------------------
(* extract_deaths_from_match on timelines of ward placements around two deaths *)

MaxWards == 2   \* WARD_PLACED events of a generated timeline

\* the subject dies at (4000, 9000) at 300000 ms and again at 330000 ms
WardDeathA == Kill(300000, 2, <<>>, 4000, 9000)
WardDeathB == Kill(330000, 2, <<>>, 4000, 9000)

\* wards inside, outside and on the edges of the 30000 ms / 1500 unit window
WardPool ==
    {Ward(290000, 4000, 9500),
     [Ward(290000, 4000, 9500) EXCEPT !.creatorId = 2],
     Ward(300000, 4000, 9000),
     Ward(270000, 4000, 9000),
     Ward(299999, 4900, 10200),
     Ward(270001, 5499, 9000),
     Ward(305000, 4000, 9000),
     [type |-> "WARD_PLACED", creatorId |-> 1]}

\* the first death closes frame 1 after any prefix of the wards; the other
\* wards follow it in frame 2, ahead of the second death
WardTimelines ==
    UNION {{[info |-> [frames |->
               <<[timestamp |-> 300000, participantFrames |-> Snapshot(2600, 2000),
                  events |-> Append(SubSeq(ws, 1, k), WardDeathA)],
                 [timestamp |-> 360000, participantFrames |-> Snapshot(2600, 2000),
                  events |-> Append(SubSeq(ws, k + 1, Len(ws)), WardDeathB)]>>]] :
             k \in 0..Len(ws)} :
           ws \in SeqsUpTo(WardPool, MaxWards)}

InitWard ==
    /\ fn = "extract_deaths_from_match"
    /\ \E tl \in WardTimelines :
          args = [match_data    |-> [metadata |-> [matchId |-> "BR1_8"],
                                     info     |-> [participants |-> PoolParticipants]],
                  timeline_data |-> tl,
                  puuid         |-> Subject]
    /\ ret = [raised |-> "None", value |-> <<>>] /\ calls = 0
    /\ IdlePass

NextWard == CallExtract

SpecWard == InitWard /\ [][NextWard]_vars

\* the events of the timeline handed to the call, from every frame
TimelineEvents == UNION {Range(f.events) : f \in Range(args.timeline_data.info.frames)}

\* a ward of the subject placed less than 30000 ms before ts and less than 1500
\* units from (x, y)
WardCovers(e, ts, x, y) ==
    /\ e.type = "WARD_PLACED" /\ e.creatorId = 1
    /\ "timestamp" \in DOMAIN e /\ "position" \in DOMAIN e
    /\ e.timestamp < ts /\ ts - e.timestamp < 30000
    /\ (x - e.position.x) * (x - e.position.x)
          + (y - e.position.y) * (y - e.position.y) < 1500 * 1500

\* C13: had_ward_nearby of an extracted death holds exactly when some ward of
\* the subject, anywhere in the timeline, lies strictly inside the 30000 ms
\* lookback and strictly inside the 1500 radius; wards of others, wards at or
\* after the death, exactly 30000 ms earlier or exactly 1500 away never count.
C13_WardNearbyIffInWindow ==
    (fn = "extract_deaths_from_match" /\ calls > 0) =>
        /\ Len(ret.value) = 2
        /\ \A i \in 1..Len(ret.value) :
              ret.value[i].had_ward_nearby <=>
                  \E e \in TimelineEvents :
                      WardCovers(e, ret.value[i].game_timestamp_ms,
                                 ret.value[i].position_x, ret.value[i].position_y)
        /\ (TimelineEvents \cap WardPool)
              \subseteq {[Ward(290000, 4000, 9500) EXCEPT !.creatorId = 2],
                         Ward(300000, 4000, 9000), Ward(270000, 4000, 9000),
                         Ward(299999, 4900, 10200)}
              => ~ret.value[1].had_ward_nearby

\* the only ward of the timeline is listed after the first death, in the next
\* frame, 1 ms inside the window and 1 unit inside the radius: the first death
\* had a ward nearby, the second one had not
C13_Witness ==
    /\ fn = "extract_deaths_from_match" /\ calls > 0
    /\ TimelineEvents \cap WardPool = {Ward(270001, 5499, 9000)}
    /\ Ward(270001, 5499, 9000) \in Range(args.timeline_data.info.frames[2].events)
    /\ Len(ret.value) = 2
    /\ ret.value[1].had_ward_nearby
    /\ ~ret.value[2].had_ward_nearby

----------------------------------------------------------------------------
(* determine_map_zone on a grid over the map *)

\* coordinates on both sides of every threshold of the classifier
ZoneCoords == {0, 1999, 2000, 2499, 2500, 3999, 4000, 4001, 4999, 5000, 6000, 7000,
               7499, 7500, 7501, 8000, 8001, 9000, 10000, 10001, 10999, 11000, 11001,
               12000, 13000, 13001, 14999}

InitZone ==
    /\ fn = "determine_map_zone"
    /\ args \in [x : ZoneCoords, y : ZoneCoords]
    /\ ret = "" /\ calls = 0
    /\ IdlePass

CallZone ==
    /\ fn = "determine_map_zone" /\ calls < MaxCalls
    /\ ret' = determine_map_zone(args.x, args.y)
    /\ calls' = calls + 1
    /\ UNCHANGED <<botVars, tasks, fn, args, passVars, repoVars, storeVars>>

NextZone == CallZone

SpecZone == InitZone /\ [][NextZone]_vars

\* the rules of the zone classifier as regions of the map
InBlueBase(x, y)  == x < 2000 /\ y < 2000
InRedBase(x, y)   == x > 13000 /\ y > 13000
InRiverBand(x, y) == 11000 < x + y /\ x + y < 19000
OnTopEdge(x, y)   == (x < 4000 /\ y > 11000) \/ (x < 2500 /\ y > 8000)
OnBotEdge(x, y)   == (x > 11000 /\ y < 4000) \/ (x > 8000 /\ y < 2500)
OnMidDiagonal(x, y) ==
    /\ x - y < 3000 /\ y - x < 3000
    /\ 4000 < x /\ x < 11000 /\ 4000 < y /\ y < 11000

\* C14: the zone is that of the first matching rule in the order base corners,
\* river band, edge lanes, mid lane, jungle quadrant: both base corners always
\* win, and every other point of the band 11000 < x+y < 19000 is a river zone
\* (top if y > 10000 or x < 5000, else bot if y < 5000 or x > 10000, else mid)
\* even where a lane-edge or mid-lane rule matches too.
C14_FirstMatchingZoneRule ==
    (fn = "determine_map_zone" /\ calls > 0) =>
        LET x == args.x
            y == args.y
            base  == InBlueBase(x, y) \/ InRedBase(x, y)
            river == ~base /\ InRiverBand(x, y)
            edge  == ~base /\ ~river /\ (OnTopEdge(x, y) \/ OnBotEdge(x, y))
            mid   == ~base /\ ~river /\ ~edge /\ OnMidDiagonal(x, y)
        IN /\ InBlueBase(x, y) => ret = "base_blue"
           /\ InRedBase(x, y) => ret = "base_red"
           /\ river => ret = (IF y > 10000 \/ x < 5000 THEN "river_top"
                              ELSE IF y < 5000 \/ x > 10000 THEN "river_bot"
                              ELSE "river_mid")
           /\ edge => ret = (IF OnTopEdge(x, y) THEN "top_lane" ELSE "bot_lane")
           /\ mid => ret = "mid_lane"
           /\ (~base /\ ~river /\ ~edge /\ ~mid) =>
                 ret \in {"jungle_top_blue", "jungle_bot_blue",
                          "jungle_top_red", "jungle_bot_red"}

\* (2000, 13000) satisfies the top-lane edge rule and lies in the river band:
\* the result is river_top, on every evaluation
C14_Witness ==
    /\ fn = "determine_map_zone" /\ calls = MaxCalls
    /\ args.x = 2000 /\ args.y = 13000
    /\ OnTopEdge(args.x, args.y) /\ InRiverBand(args.x, args.y)
    /\ ret = "river_top"

----------------------------------------------------------------------------
(* detect_patterns on batches of death records *)

MaxDeaths == 4   \* deaths of a batch handed to detect_patterns

\* a DeathContext with the fields detect_patterns reads set apart
Death(match_id, ts, zone, ward, gold, cs, type, killer) ==
    [match_id              |-> match_id,
     game_timestamp_ms     |-> ts,
     game_phase            |-> determine_game_phase(ts),
     position_x            |-> 0,
     position_y            |-> 0,
     map_zone              |-> zone,
     killer_champion       |-> killer,
     killer_participant_id |-> 0,
     assisting_champions   |-> <<>>,
     had_ward_nearby       |-> ward,
     gold_diff             |-> gold,
     cs_diff               |-> cs,
     level_diff            |-> 0,
     player_gold           |-> 0,
     player_champion       |-> "Ahri",
     death_type            |-> type]

\* two pairs of early deaths 210 s apart, sidelane and tower-dive deaths, and
\* leads on both sides of the 500 gold / 15 cs marks
DeathPool ==
    {Death("BR1_1", 300000,  "river_top", FALSE, 0,   0,  "solo_kill",  "Zed"),
     Death("BR1_2", 310000,  "river_mid", FALSE, 501, 0,  "gank",       "Zed"),
     Death("BR1_3", 520000,  "river_bot", FALSE, 500, 15, "solo_kill",  "LeeSin"),
     Death("BR1_1", 530000,  "top_lane",  TRUE,  0,   16, "caught",     "Zed"),
     Death("BR1_2", 800000,  "top_lane",  TRUE,  0,   0,  "caught",     "Lux"),
     Death("BR1_3", 1300000, "bot_lane",  FALSE, 0,   0,  "caught",     "Zed"),
     Death("BR1_2", 900000,  "jungle_top_red", TRUE, 0, 0, "tower_dive", "Lux"),
     Death("BR1_3", 950000,  "mid_lane",  FALSE, 0,   0,  "tower_dive", "Lux")}

InitDetect ==
    /\ fn = "detect_patterns"
    /\ args \in [deaths : DistinctSeqsUpTo(DeathPool, MaxDeaths)]
    /\ ret = <<>> /\ calls = 0
    /\ IdlePass

\* detect_patterns(deaths, existing_patterns) with the default min_occurrences
CallDetect ==
    /\ fn = "detect_patterns" /\ calls < MaxCalls
    /\ ret' = detect_patterns(args.deaths, <<>>, 2)
    /\ calls' = calls + 1
    /\ UNCHANGED <<botVars, tasks, fn, args, passVars, repoVars, storeVars>>

NextDetect == CallDetect

SpecDetect == InitDetect /\ [][NextDetect]_vars

\* the per-key predicates of the count-based pattern keys
KeyPredicate(key, d) ==
    CASE key = "river_death_no_ward" ->
            d.map_zone \in {"river_top", "river_bot", "river_mid"} /\ ~d.had_ward_nearby
      [] key = "dies_when_ahead" -> d.gold_diff > 500 \/ d.cs_diff > 15
      [] key = "caught_sidelane" ->
            /\ d.map_zone \in {"top_lane", "bot_lane"}
            /\ d.game_phase \in {"mid", "late"}
            /\ d.death_type = "caught"
      [] key = "tower_dive_fail" -> d.death_type = "tower_dive"
      [] key = "overextend_no_vision" ->
            ~d.had_ward_nearby /\ d.death_type \in {"gank", "caught"}
      [] OTHER -> FALSE

CountKeys == {"river_death_no_ward", "dies_when_ahead", "caught_sidelane",
              "tower_dive_fail", "overextend_no_vision"}

\* positions of the updates of ret that carry this key
UpdatesOf(key) == {j \in 1..Len(ret) : ret[j].pattern_key = key}

\* C15: a count-based key gets an update exactly when the deaths of the batch
\* matching its predicate number at least 2 (at least 3 by one killer for
\* dies_to_same_champ), and the update's occurrences is that number; the keys
\* count independently; an empty batch gives no update; three no-ward river
\* deaths of three matches give river_death_no_ward with occurrences 3.
C15_CountBasedKeys ==
    (fn = "detect_patterns" /\ calls > 0) =>
        LET deaths == args.deaths
            n(key) == Cardinality({i \in 1..Len(deaths) : KeyPredicate(key, deaths[i])})
            by(c)  == Cardinality({i \in 1..Len(deaths) : deaths[i].killer_champion = c})
            killers == {deaths[i].killer_champion : i \in 1..Len(deaths)}
        IN /\ \A key \in CountKeys :
                 /\ Cardinality(UpdatesOf(key)) = (IF n(key) >= 2 THEN 1 ELSE 0)
                 /\ \A j \in UpdatesOf(key) : ret[j].occurrences = n(key)
           /\ \A c \in killers :
                 Cardinality({j \in UpdatesOf("dies_to_same_champ") :
                                 ret[j].description.who = c})
                     = (IF by(c) >= 3 THEN 1 ELSE 0)
           /\ \A j \in UpdatesOf("dies_to_same_champ") :
                 /\ ret[j].description.who \in killers
                 /\ ret[j].occurrences = by(ret[j].description.who)
           /\ deaths = <<>> => ret = <<>>
           /\ (/\ Len(deaths) = 3
               /\ \A i \in 1..3 : KeyPredicate("river_death_no_ward", deaths[i])
               /\ Cardinality({deaths[k].match_id : k \in 1..3}) = 3)
                => \E j \in UpdatesOf("river_death_no_ward") : ret[j].occurrences = 3

\* scenario B, and one of its deaths also counts for two other keys
C15_Witness ==
    /\ fn = "detect_patterns" /\ calls > 0
    /\ Len(args.deaths) = 3
    /\ \A i \in 1..3 : KeyPredicate("river_death_no_ward", args.deaths[i])
    /\ Cardinality({args.deaths[k].match_id : k \in 1..3}) = 3
    /\ \E i \in 1..3 : /\ KeyPredicate("dies_when_ahead", args.deaths[i])
                        /\ KeyPredicate("overextend_no_vision", args.deaths[i])
    /\ \E j \in 1..Len(ret) :
          ret[j].pattern_key = "river_death_no_ward" /\ ret[j].occurrences = 3

----------------------------------------------------------------------------
(* extract_deaths_from_match on rosters with and without a lane opponent *)

\* the subject and participant 2 on either team, with a role label, an empty
\* one or none; participant 4 in its own role or in the subject's
DiffRosters ==
    {<<[puuid |-> Subject, participantId |-> 1, teamId |-> t1, championName |-> "Ahri"]
          @@ r1,
       [puuid |-> "puuid-2", participantId |-> 2, teamId |-> t2, championName |-> "Zed"]
          @@ r2,
       [puuid |-> "puuid-3", participantId |-> 3, teamId |-> 200,
        teamPosition |-> "JUNGLE", championName |-> "LeeSin"],
       [puuid |-> "puuid-4", participantId |-> 4, teamId |-> 200,
        teamPosition |-> r4, championName |-> "Lux"]>> :
        t1 \in {100, 200}, t2 \in {100, 200},
        r1 \in {[teamPosition |-> "MIDDLE"], [teamPosition |-> ""], EmptyDict},
        r2 \in {[teamPosition |-> "MIDDLE"], [teamPosition |-> ""],
                [teamPosition |-> "BOTTOM"], EmptyDict},
        r4 \in {"TOP", "MIDDLE"}}

\* periodic snapshots: all of participants 1, 2 and 4, or one without the subject
DiffSnapshots ==
    {[k \in keys |->
        CASE k = "1" -> [totalGold |-> 2600, minionsKilled |-> 40,
                         jungleMinionsKilled |-> 4, level |-> 6]
          [] k = "2" -> [totalGold |-> 2000, minionsKilled |-> 30,
                         jungleMinionsKilled |-> 0, level |-> 5]
          [] OTHER   -> [totalGold |-> 3000, minionsKilled |-> 50, level |-> 7]] :
        keys \in {{"1", "2", "4"}, {"2", "4"}}}

\* one death per frame; the second frame may come without participantFrames
DiffTimelines ==
    {[info |-> [frames |->
        <<[timestamp |-> 300000, participantFrames |-> snap,
           events |-> <<Kill(300000, 2, <<>>, 4000, 9000)>>],
          [timestamp |-> 360000, events |-> <<Kill(350000, 4, <<2>>, 7000, 7000)>>] @@ pf>>]] :
        snap \in DiffSnapshots,
        pf \in {EmptyDict} \cup {[participantFrames |-> sn] : sn \in DiffSnapshots}}

InitDiff ==
    /\ fn = "extract_deaths_from_match"
    /\ \E roster \in DiffRosters, tl \in DiffTimelines :
          args = [match_data    |-> [metadata |-> [matchId |-> "BR1_7"],
                                     info     |-> [participants |-> roster]],
                  timeline_data |-> tl,
                  puuid         |-> Subject]
    /\ ret = [raised |-> "None", value |-> <<>>] /\ calls = 0
    /\ IdlePass

NextDiff == CallExtract

SpecDiff == InitDiff /\ [][NextDiff]_vars

\* the subject's roster entry and the opposing participants that carry the
\* subject's role label
DiffMe == args.match_data.info.participants[1]

DiffOpponents ==
    {i \in 1..Len(args.match_data.info.participants) :
        LET p == args.match_data.info.participants[i]
        IN /\ p.teamId # DiffMe.teamId
           /\ "teamPosition" \in DOMAIN DiffMe
           /\ "teamPosition" \in DOMAIN p
           /\ p.teamPosition = DiffMe.teamPosition}

\* a value of participant pid in the snapshot of frame k (default when absent)
SnapshotValue(k, pid, field, default) ==
    LET f  == args.timeline_data.info.frames[k]
        pf == IF "participantFrames" \in DOMAIN f THEN f.participantFrames ELSE EmptyDict
        e  == IF Str(pid) \in DOMAIN pf THEN pf[Str(pid)] ELSE EmptyDict
    IN IF field \in DOMAIN e THEN e[field] ELSE default

SnapshotCs(k, pid) ==
    SnapshotValue(k, pid, "minionsKilled", 0) + SnapshotValue(k, pid, "jungleMinionsKilled", 0)

\* C16: when the subject carries no role label, or no participant of the
\* opposing team carries the subject's label, gold_diff, cs_diff and level_diff
\* of every death are 0; otherwise each is the subject's value minus that of the
\* first opposing participant with the label, read from the death's frame.
C16_DiffsAgainstLaneOpponent ==
    (fn = "extract_deaths_from_match" /\ calls > 0) =>
        /\ Len(ret.value) = 2
        /\ \A k \in 1..Len(ret.value) :
              IF DiffOpponents = {}
              THEN /\ ret.value[k].gold_diff = 0
                   /\ ret.value[k].cs_diff = 0
                   /\ ret.value[k].level_diff = 0
              ELSE LET o == CHOOSE i \in DiffOpponents : \A j \in DiffOpponents : i <= j
                   IN /\ ret.value[k].gold_diff =
                            SnapshotValue(k, 1, "totalGold", 0) - SnapshotValue(k, o, "totalGold", 0)
                      /\ ret.value[k].cs_diff = SnapshotCs(k, 1) - SnapshotCs(k, o)
                      /\ ret.value[k].level_diff =
                            SnapshotValue(k, 1, "level", 1) - SnapshotValue(k, o, "level", 1)

\* the subject, MIDDLE on team 100, faces two MIDDLE opponents: the diffs are
\* taken against participant 2, the first of them
C16_Witness ==
    /\ fn = "extract_deaths_from_match" /\ calls > 0
    /\ DiffOpponents = {2, 4}
    /\ Len(ret.value) = 2
    /\ ret.value[1].gold_diff = 600 /\ ret.value[1].cs_diff = 14
    /\ ret.value[1].level_diff = 1
    /\ ret.value[2].gold_diff = 0

----------------------------------------------------------------------------
(* Claims about the stored deaths *)

\* C17: a death event is stored once: no two rows of the deaths table describe
\* the same death (same match row, player and game timestamp), however often
\* the analysis runs over the match.
C17_DeathsStoredOnce ==
    \A i, j \in 1..Len(db_deaths) :
        (/\ db_deaths[i].match_db_id = db_deaths[j].match_db_id
         /\ db_deaths[i].player_id = db_deaths[j].player_id
         /\ db_deaths[i].game_timestamp_ms = db_deaths[j].game_timestamp_ms) => i = j

----------------------------------------------------------------------------
(* CoachingClient._call_claude under its retry decorator *)

\* what one client.messages.create call can do: return, or raise one of these
ApiOutcomes == {"ok", "AuthenticationError", "RateLimitError", "BadRequestError",
                "APIStatusError529", "APIConnectionError", "APITimeoutError"}

\* stop=stop_after_attempt(3)
stop_after_attempt == 3

\* retry_if_exception_type((RateLimitError, APIConnectionError)) applied to the
\* exception that leaves the function (APITimeoutError subclasses
\* APIConnectionError; ClaudeAPIError subclasses neither)
retry_if_exception_type(raised) ==
    raised \in {"RateLimitError", "APIConnectionError", "APITimeoutError"}

\* the body of _call_claude for one outcome of messages.create: every anthropic
\* exception is caught and a ClaudeAPIError raised in its place (status_code 0
\* stands for None; APITimeoutError is caught by the APIConnectionError handler)
call_claude_body(outcome) ==
    CASE outcome = "ok" -> [raised |-> "None", status_code |-> 0, text |-> "response"]
      [] outcome = "AuthenticationError" ->
            [raised |-> "ClaudeAPIError", status_code |-> 401, text |-> ""]
      [] outcome = "RateLimitError" ->
            [raised |-> "ClaudeAPIError", status_code |-> 429, text |-> ""]
      [] outcome = "BadRequestError" ->
            [raised |-> "ClaudeAPIError", status_code |-> 400, text |-> ""]
      [] outcome = "APIStatusError529" ->
            [raised |-> "ClaudeAPIError", status_code |-> 529, text |-> ""]
      [] OTHER -> [raised |-> "ClaudeAPIError", status_code |-> 0, text |-> ""]

InitClaude ==
    /\ fn = "_call_claude"
    /\ args \in [outcomes : [1..stop_after_attempt -> ApiOutcomes]]
    /\ ret = [done |-> FALSE, raised |-> "None", status_code |-> 0, text |-> ""]
    /\ calls = 0
    /\ IdlePass

\* one attempt: the body runs, then the decorator either hands its result or
\* exception to the caller (reraise=True) or schedules another attempt
AttemptClaude ==
    /\ fn = "_call_claude" /\ ~ret.done /\ calls < stop_after_attempt
    /\ LET result == call_claude_body(args.outcomes[calls + 1])
           again  == /\ result.raised # "None"
                     /\ retry_if_exception_type(result.raised)
                     /\ calls + 1 < stop_after_attempt
       IN ret' = [done |-> ~again, raised |-> result.raised,
                  status_code |-> result.status_code, text |-> result.text]
    /\ calls' = calls + 1
    /\ UNCHANGED <<botVars, tasks, fn, args, passVars, repoVars, storeVars>>

NextClaude == AttemptClaude

SpecClaude == InitClaude /\ [][NextClaude]_vars

\* C18: a call that ends in ClaudeAPIError because of a rate-limit or connection
\* error has made 3 attempts (429 for rate limiting), so an error on the first
\* attempt is followed by a retry; an authentication error ends the call with
\* ClaudeAPIError after one attempt.
C18_RetriesRateLimitAndConnection ==
    (fn = "_call_claude" /\ ret.done) =>
        /\ (ret.raised = "ClaudeAPIError"
              /\ args.outcomes[calls] \in {"RateLimitError", "APIConnectionError"})
             => calls = 3
        /\ (ret.raised = "ClaudeAPIError" /\ args.outcomes[calls] = "RateLimitError")
             => ret.status_code = 429
        /\ args.outcomes[1] = "AuthenticationError"
             => (calls = 1 /\ ret.raised = "ClaudeAPIError")

----------------------------------------------------------------------------
(* Claims relating the trigger test to detect_patterns *)

\* the pattern keys detect_patterns reports for these deaths alone
DetectedKeys(deaths, min_occurrences) ==
    {u.pattern_key : u \in Range(detect_patterns(deaths, <<>>, min_occurrences))}

\* C19: the trigger test of check_pattern_status agrees with the predicate
\* detect_patterns uses for the key, on the deaths of the most recent match: a
\* key that detect_patterns reports for these deaths is triggered, and a
\* triggered key is one detect_patterns reports for them once a single
\* occurrence suffices; a pattern reported for the match is therefore active.
C19_TriggerTestAgreesWithDetection ==
    (fn = "check_pattern_status" /\ calls > 0) =>
        LET key == args.pattern.pattern_key
            hit == _pattern_triggered_in_deaths(key, args.recent_deaths)
        IN /\ key \in DetectedKeys(args.recent_deaths, 2) => (hit /\ ret = "active")
           /\ hit => key \in DetectedKeys(args.recent_deaths, 1)

\* C20: one call of detect_patterns returns at most one update per pattern key,
\* except for dies_to_same_champ (one per qualifying killer); early_death_repeat
\* in particular gets at most one update however many clusters of early deaths
\* the batch holds.
C20_OneUpdatePerKey ==
    (fn = "detect_patterns" /\ calls > 0) =>
        \A key \in PatternKey \ {"dies_to_same_champ"} : Cardinality(UpdatesOf(key)) <= 1

----------------------------------------------------------------------------
(* detect_patterns on batches of early deaths around the 120000 ms window *)

\* early deaths exactly 120000 and 120001 ms apart, two at the same instant, a
\* chain of window-sized steps, and a mid-game death 10 s after the last early one
ClusterPool ==
    {Death("BR1_1", 100000, "top_lane", TRUE, 0, 0, "solo_kill", "Zed"),
     Death("BR1_1", 220000, "top_lane", TRUE, 0, 0, "solo_kill", "Lux"),
     Death("BR1_1", 340001, "top_lane", TRUE, 0, 0, "solo_kill", "LeeSin"),
     Death("BR1_1", 350000, "top_lane", TRUE, 0, 0, "solo_kill", "Zed"),
     Death("BR1_2", 350000, "top_lane", TRUE, 0, 0, "solo_kill", "Lux"),
     Death("BR1_2", 470000, "top_lane", TRUE, 0, 0, "solo_kill", "LeeSin"),
     Death("BR1_2", 590000, "top_lane", TRUE, 0, 0, "solo_kill", "Zed"),
     Death("BR1_3", 600000, "top_lane", TRUE, 0, 0, "solo_kill", "Lux")}

InitCluster ==
    /\ fn = "detect_patterns"
    /\ args \in [deaths : DistinctSeqsUpTo(ClusterPool, MaxDeaths)]
    /\ ret = <<>> /\ calls = 0
    /\ IdlePass

NextCluster == CallDetect

SpecCluster == InitCluster /\ [][NextCluster]_vars

\* positions in the batch of its EARLY-phase deaths
EarlyIndexes == {i \in 1..Len(args.deaths) : args.deaths[i].game_phase = "early"}

\* the timestamps of the early deaths in ascending order (a timestamp once for
\* each death that has it)
EarlyTimes ==
    LET ts(i) == args.deaths[i].game_timestamp_ms
        Before(j, i) == ts(j) < ts(i) \/ (ts(j) = ts(i) /\ j < i)
        rank(i) == Cardinality({j \in EarlyIndexes : Before(j, i)}) + 1
        at == [r \in 1..Cardinality(EarlyIndexes) |->
                  CHOOSE i \in EarlyIndexes : rank(i) = r]
    IN [r \in 1..Len(at) |-> [index |-> at[r], ts |-> ts(at[r])]]

\* the r-th early death joins the cluster of the one before it
JoinsPrevious(times, r) == r > 1 /\ times[r].ts - times[r - 1].ts <= 120000

\* ranks of the cluster that starts at rank s
ClusterOf(times, s) ==
    {r \in s..Len(times) : \A q \in (s + 1)..r : JoinsPrevious(times, q)}

\* first ranks of the clusters that have at least 2 members
RepeatClusters(times) ==
    {s \in 1..Len(times) : ~JoinsPrevious(times, s) /\ Cardinality(ClusterOf(times, s)) >= 2}

\* C21: the early_death_repeat updates are, in timeline order, exactly the
\* greedy clusters of the timestamp-sorted EARLY deaths that have at least 2
\* members (a death joins the cluster of the death before it exactly when it is
\* at most 120000 ms later); each update's occurrences is its cluster's size
\* and its samples are that cluster's deaths, so no early death is counted in
\* two clusters.
C21_EarlyClusters ==
    (fn = "detect_patterns" /\ calls > 0) =>
        LET ups == SelectSeq(ret, LAMBDA u : u.pattern_key = "early_death_repeat")
            times == EarlyTimes
            starts == RepeatClusters(times)
            nth(j) == CHOOSE s \in starts : Cardinality({q \in starts : q < s}) = j - 1
        IN /\ Len(ups) = Cardinality(starts)
           /\ \A j \in 1..Len(ups) :
                 /\ ups[j].occurrences = Cardinality(ClusterOf(times, nth(j)))
                 /\ ups[j].occurrences >= 2
                 /\ ups[j].sample_death_ids =
                       [k \in 1..ups[j].occurrences |->
                           args.deaths[times[nth(j) + k - 1].index].match_id]
           /\ SeqSum([j \in 1..Len(ups) |-> ups[j].occurrences]) <= Len(times)

\* a batch with a pair exactly 120000 ms apart, a death 120001 ms later that
\* starts a cluster of its own, and one update per cluster
C21_Witness ==
    /\ fn = "detect_patterns" /\ calls > 0
    /\ {args.deaths[i].game_timestamp_ms : i \in 1..Len(args.deaths)}
          = {100000, 220000, 340001, 350000}
    /\ Len(SelectSeq(ret, LAMBDA u : u.pattern_key = "early_death_repeat")) = 2

----------------------------------------------------------------------------
(* extract_deaths_from_match on timelines whose events precede their frame's *)
(* snapshot, as in tests/fixtures/sample_matches.py (a kill at 540000 ms in  *)
(* the frame stamped 600000 ms)                                              *)

\* frames every 300000 ms; a frame holds the events since the frame before it
\* and the snapshot taken at its own timestamp
SnapshotTimelines ==
    {[info |-> [frames |->
        <<[timestamp |-> 0, participantFrames |-> Snapshot(500, 500), events |-> <<>>],
          [timestamp |-> 300000, participantFrames |-> Snapshot(g1, g2), events |-> e2],
          [timestamp |-> 600000, participantFrames |-> Snapshot(h1, h2), events |-> e3]>>]] :
        g1 \in {2000, 2600}, g2 \in {2000, 2400}, h1 \in {4000, 4800}, h2 \in {4000, 4500},
        e2 \in {<<>>, <<Kill(240000, 2, <<>>, 4000, 9000)>>,
                <<Kill(300000, 2, <<>>, 4000, 9000)>>,
                <<Kill(240000, 2, <<>>, 4000, 9000), Kill(300000, 2, <<>>, 4000, 9000)>>},
        e3 \in {<<>>, <<Kill(540000, 3, <<2>>, 7000, 7000)>>,
                <<Kill(600000, 3, <<2>>, 7000, 7000)>>,
                <<Kill(540000, 3, <<2>>, 7000, 7000), Kill(600000, 3, <<2>>, 7000, 7000)>>}}

InitSnapshot ==
    /\ fn = "extract_deaths_from_match"
    /\ \E tl \in SnapshotTimelines :
          args = [match_data    |-> [metadata |-> [matchId |-> "BR1_8"],
                                     info     |-> [participants |-> PoolParticipants]],
                  timeline_data |-> tl,
                  puuid         |-> Subject]
    /\ ret = [raised |-> "None", value |-> <<>>] /\ calls = 0
    /\ IdlePass

NextSnapshot == CallExtract

SpecSnapshot == InitSnapshot /\ [][NextSnapshot]_vars

\* index of the frame whose timestamp is the closest one at or before ts
FrameAtOrBefore(ts) ==
    LET frames == args.timeline_data.info.frames
        upto   == {k \in 1..Len(frames) : frames[k].timestamp <= ts}
    IN CHOOSE k \in upto : \A j \in upto : frames[j].timestamp <= frames[k].timestamp

\* C22: the player's gold and the gold, creep score and level differences
\* against the lane opponent (participant 2) of every extracted death are those
\* of the snapshot frame whose timestamp is the closest one at or before the
\* death's timestamp, never those of a later snapshot.
C22_SnapshotAtOrBeforeDeath ==
    (fn = "extract_deaths_from_match" /\ calls > 0) =>
        \A i \in 1..Len(ret.value) :
            LET k == FrameAtOrBefore(ret.value[i].game_timestamp_ms)
            IN /\ ret.value[i].player_gold = SnapshotValue(k, 1, "totalGold", 0)
               /\ ret.value[i].gold_diff =
                     SnapshotValue(k, 1, "totalGold", 0) - SnapshotValue(k, 2, "totalGold", 0)
               /\ ret.value[i].cs_diff = SnapshotCs(k, 1) - SnapshotCs(k, 2)
               /\ ret.value[i].level_diff =
                     SnapshotValue(k, 1, "level", 1) - SnapshotValue(k, 2, "level", 1)

----------------------------------------------------------------------------
(* Claims about the records of one extraction *)

\* <<frame, event>> positions of the CHAMPION_KILL events whose victim is the
\* subject; none when the subject is not in the roster
SubjectKills ==
    LET frames == args.timeline_data.info.frames
    IN {fe \in UNION {{<<f, e>> : e \in 1..Len(frames[f].events)} : f \in 1..Len(frames)} :
           /\ SubjectInMatch
           /\ frames[fe[1]].events[fe[2]].type = "CHAMPION_KILL"
           /\ frames[fe[1]].events[fe[2]].victimId = 1}

\* the r-th of them in timeline order: frame order, then event order in the frame
SubjectKillAt(r) ==
    LET Earlier(a, b) == a[1] < b[1] \/ (a[1] = b[1] /\ a[2] < b[2])
    IN CHOOSE fe \in SubjectKills :
          Cardinality({o \in SubjectKills : Earlier(o, fe)}) = r - 1

\* C23: extract_deaths_from_match returns one record per CHAMPION_KILL event
\* whose victim is the subject, in timeline order, repeated events included and
\* other events giving none; a record's timestamp is its event's timestamp, or
\* the enclosing frame's when the event has none, and its killer is the event's.
C23_OneRecordPerDeathEvent ==
    (fn = "extract_deaths_from_match" /\ calls > 0) =>
        /\ Len(ret.value) = Cardinality(SubjectKills)
        /\ \A r \in 1..Len(ret.value) :
              LET frame == args.timeline_data.info.frames[SubjectKillAt(r)[1]]
                  event == frame.events[SubjectKillAt(r)[2]]
              IN /\ ret.value[r].game_timestamp_ms =
                       (IF "timestamp" \in DOMAIN event THEN event.timestamp
                        ELSE frame.timestamp)
                 /\ ret.value[r].killer_participant_id =
                       (IF "killerId" \in DOMAIN event THEN event.killerId ELSE 0)

\* the same kill listed twice in the first frame, next to a kill of another
\* victim, and a kill without timestamp in the second frame: three records
C23_Witness ==
    /\ fn = "extract_deaths_from_match" /\ calls > 0
    /\ SubjectInMatch
    /\ args.timeline_data.info.frames[1].events
          = <<Kill(300000, 2, <<>>, 4000, 9000), Kill(300000, 2, <<>>, 4000, 9000)>>
    /\ args.timeline_data.info.frames[2].events = <<[type |-> "CHAMPION_KILL", victimId |-> 1]>>
    /\ [i \in 1..Len(ret.value) |-> ret.value[i].game_timestamp_ms]
          = <<300000, 300000, 360000>>

----------------------------------------------------------------------------
(* extract_deaths_from_match on a kill event that lacks optional fields *)

GoodKillBefore == Kill(290000, 2, <<>>, 4000, 9000)
GoodKillAfter  == Kill(350000, 4, <<2>>, 7000, 7000)

\* a CHAMPION_KILL of the subject with any of timestamp, killerId and
\* assistingParticipantIds left out, and position left out, whole or halved
MalformedKills ==
    {[type |-> "CHAMPION_KILL", victimId |-> 1] @@ t @@ k @@ a @@ pos :
        t   \in {EmptyDict, [timestamp |-> 320000]},
        k   \in {EmptyDict, [killerId |-> 3]},
        a   \in {EmptyDict, [assistingParticipantIds |-> <<2>>]},
        pos \in {EmptyDict, [position |-> [x |-> 9000, y |-> 4500]],
                 [position |-> [x |-> 9000]], [position |-> [y |-> 4500]]}}

\* the malformed kill between two well-formed ones, in either frame; the
\* second frame with or without a timestamp of its own
MalformedTimelines ==
    {[info |-> [frames |->
        <<[timestamp |-> 300000, participantFrames |-> Snapshot(2600, 2000),
           events |-> SubSeq(<<GoodKillBefore, bad, GoodKillAfter>>, 1, split)],
          [events |-> SubSeq(<<GoodKillBefore, bad, GoodKillAfter>>, split + 1, 3)] @@ ft>>]] :
        bad \in MalformedKills, split \in 0..3,
        ft \in {EmptyDict, [timestamp |-> 360000]}}

InitMalformed ==
    /\ fn = "extract_deaths_from_match"
    /\ \E tl \in MalformedTimelines :
          args = [match_data    |-> [metadata |-> [matchId |-> "BR1_6"],
                                     info     |-> [participants |-> PoolParticipants]],
                  timeline_data |-> tl,
                  puuid         |-> Subject]
    /\ ret = [raised |-> "None", value |-> <<>>] /\ calls = 0
    /\ IdlePass

NextMalformed == CallExtract

SpecMalformed == InitMalformed /\ [][NextMalformed]_vars

\* the malformed kill of the timeline and the frame that holds it
BadEvent == CHOOSE e \in TimelineEvents : e \in MalformedKills

BadFrame ==
    CHOOSE f \in Range(args.timeline_data.info.frames) : BadEvent \in Range(f.events)

\* the record of the malformed kill carries what the event has and zero/empty
\* for position, killer and assists it lacks; the two other deaths are returned
MalformedRecordDefaults ==
    /\ ret.raised = "None"
    /\ Len(ret.value) = 3
    /\ ret.value[1].game_timestamp_ms = 290000 /\ ret.value[1].killer_champion = "Zed"
    /\ ret.value[3].game_timestamp_ms = 350000 /\ ret.value[3].killer_champion = "Lux"
    /\ ret.value[3].assisting_champions = <<"Zed">>
    /\ ret.value[2].position_x =
          (IF "position" \in DOMAIN BadEvent /\ "x" \in DOMAIN BadEvent.position
           THEN BadEvent.position.x ELSE 0)
    /\ ret.value[2].position_y =
          (IF "position" \in DOMAIN BadEvent /\ "y" \in DOMAIN BadEvent.position
           THEN BadEvent.position.y ELSE 0)
    /\ ret.value[2].killer_participant_id =
          (IF "killerId" \in DOMAIN BadEvent THEN BadEvent.killerId ELSE 0)
    /\ ret.value[2].assisting_champions =
          (IF "assistingParticipantIds" \in DOMAIN BadEvent THEN <<"Zed">> ELSE <<>>)

\* C24 as stated: a kill of the subject that lacks position, timestamp, killer
\* id or assist list still yields a record, with every missing field at
\* zero/empty (a missing timestamp included), and the deaths before and after
\* it are returned.
C24_MissingFieldsZero ==
    (fn = "extract_deaths_from_match" /\ calls > 0) =>
        /\ MalformedRecordDefaults
        /\ ret.value[2].game_timestamp_ms =
              (IF "timestamp" \in DOMAIN BadEvent THEN BadEvent.timestamp ELSE 0)

\* C24 amended: as above, but a missing timestamp becomes the timestamp of the
\* enclosing frame, and zero only when that frame has none either.
C24_MissingFieldsDefaulted ==
    (fn = "extract_deaths_from_match" /\ calls > 0) =>
        /\ MalformedRecordDefaults
        /\ ret.value[2].game_timestamp_ms =
              (IF "timestamp" \in DOMAIN BadEvent THEN BadEvent.timestamp
               ELSE IF "timestamp" \in DOMAIN BadFrame THEN BadFrame.timestamp
               ELSE 0)

\* a kill with nothing but type and victim, in the first frame between the two
\* well-formed kills: three records, the middle one at (0, 0) at 300000 ms
C24_Witness ==
    /\ fn = "extract_deaths_from_match" /\ calls > 0
    /\ BadEvent = [type |-> "CHAMPION_KILL", victimId |-> 1]
    /\ Len(args.timeline_data.info.frames[1].events) = 2
    /\ Len(ret.value) = 3
    /\ ret.value[2].game_timestamp_ms = 300000
    /\ ret.value[2].position_x = 0 /\ ret.value[2].killer_champion = "Unknown"

----------------------------------------------------------------------------
(* Claims about the mid-lane band of the zone classifier *)

\* no base, river-band or edge-lane rule matches the point
NoEarlierZoneRule(x, y) ==
    /\ ~InBlueBase(x, y) /\ ~InRedBase(x, y)
    /\ ~InRiverBand(x, y)
    /\ ~OnTopEdge(x, y) /\ ~OnBotEdge(x, y)

\* C25 as stated: a point that matches none of the base, river-band and
\* edge-lane rules, with |x - y| < 3000 and both coordinates in the closed
\* range 4000..11000, is MID_LANE, a coordinate of 4000 or 11000 included.
C25_MidLaneClosedRange ==
    (fn = "determine_map_zone" /\ calls > 0) =>
        ((/\ NoEarlierZoneRule(args.x, args.y)
          /\ args.x - args.y < 3000 /\ args.y - args.x < 3000
          /\ args.x \in 4000..11000 /\ args.y \in 4000..11000) => ret = "mid_lane")

\* C25 amended: such a point is MID_LANE exactly when both coordinates lie
\* strictly between 4000 and 11000; with a coordinate equal to 4000 or 11000
\* it falls to a jungle quadrant.
C25_MidLaneOpenRange ==
    (fn = "determine_map_zone" /\ calls > 0) =>
        /\ (ret = "mid_lane") <=>
              (/\ NoEarlierZoneRule(args.x, args.y)
               /\ args.x - args.y < 3000 /\ args.y - args.x < 3000
               /\ args.x \in 4001..10999 /\ args.y \in 4001..10999)
        /\ (/\ NoEarlierZoneRule(args.x, args.y)
            /\ (args.x \in {4000, 11000} \/ args.y \in {4000, 11000}))
              => ret \in {"jungle_top_blue", "jungle_bot_blue",
                          "jungle_top_red", "jungle_bot_red"}

\* (4001, 4999) lies below the river band, one unit inside the range
C25_Witness ==
    /\ fn = "determine_map_zone" /\ calls > 0
    /\ args.x = 4001 /\ args.y = 4999
    /\ NoEarlierZoneRule(args.x, args.y)
    /\ ret = "mid_lane"

----------------------------------------------------------------------------
(* Two analysis passes of one player running concurrently on the shared     *)
(* database (get_database returns one Database for the process): step 6 of  *)
(* analyze_player, one action per await that reaches the patterns table.    *)
(* detect_patterns does not read existing_patterns, so each pass's updates  *)
(* are fixed by its matches before its first upsert.                        *)

TaskIds == {1, 2}

ConcurrentPlayer == 1

\* step 6 run alone: every update upserted in turn, then increment_games_since
RECURSIVE upsert_all(_, _, _)
upsert_all(table, player_id, updates) ==
    IF updates = <<>> THEN table
    ELSE upsert_all(upsert(table, player_id, Head(updates).pattern_key, Head(updates)),
                    player_id, Tail(updates))

serial_pass(table, player_id, updates) ==
    increment_games_since(upsert_all(table, player_id, updates), player_id)

\* the table the two passes start from: empty, or left by an earlier pass
ConcurrentTables ==
    {<<>>, serial_pass(<<>>, ConcurrentPlayer, detect_patterns(extracted_deaths(<<Match1>>), <<>>, 2))}

TaskStart(updates) ==
    [pc |-> IF updates = <<>> THEN "increment" ELSE "get_by_key",
     updates |-> updates, todo |-> updates, existing |-> 0]

InitConcurrent ==
    /\ IdleCall
    /\ db_patterns \in ConcurrentTables
    /\ before = db_patterns
    /\ \E ms1, ms2 \in MatchLists :
          tasks = [t \in TaskIds |->
                     TaskStart(detect_patterns(extracted_deaths(IF t = 1 THEN ms1 ELSE ms2),
                                               <<>>, 2))]
    /\ db_matches = <<>> /\ db_deaths = <<>>
    /\ pc = "idle" /\ player = 0 /\ all_deaths = <<>> /\ pattern_updates = <<>>
    /\ triggered = {} /\ passes = 0 /\ priority_pattern = <<>>
    /\ lastOp = NoOp
    /\ sessions = <<>> /\ profile = <<>>

\* upsert, first await: existing = await self.get_by_key(player_id, pattern_key);
\* the task keeps the id of the row it was given (0 for None)
TaskGetByKey(t) ==
    /\ tasks # <<>> /\ tasks[t].pc = "get_by_key"
    /\ LET idx == get_by_key(db_patterns, ConcurrentPlayer, Head(tasks[t].todo).pattern_key)
       IN tasks' = [tasks EXCEPT ![t].existing = IF idx = 0 THEN 0 ELSE db_patterns[idx].id,
                                 ![t].pc = "write"]
    /\ UNCHANGED <<botVars, callVars, passVars, repoVars, storeVars>>

\* upsert, second await: UPDATE ... WHERE id = existing["id"], or INSERT, as
\* decided from the row read before
TaskWrite(t) ==
    /\ tasks # <<>> /\ tasks[t].pc = "write"
    /\ LET update == Head(tasks[t].todo)
       IN db_patterns' =
             IF tasks[t].existing # 0
             THEN [i \in 1..Len(db_patterns) |->
                     IF db_patterns[i].id = tasks[t].existing
                         THEN upsert_update(db_patterns[i], update)
                         ELSE db_patterns[i]]
             ELSE Append(db_patterns,
                         upsert_insert(db_patterns, ConcurrentPlayer, update.pattern_key, update))
    /\ tasks' = [tasks EXCEPT ![t].todo = Tail(@),
                              ![t].existing = 0,
                              ![t].pc = IF Tail(tasks[t].todo) = <<>> THEN "increment"
                                        ELSE "get_by_key"]
    /\ UNCHANGED <<botVars, callVars, passVars, storeVars, lastOp, before>>

\* await pattern_repo.increment_games_since(player["id"])
TaskIncrement(t) ==
    /\ tasks # <<>> /\ tasks[t].pc = "increment"
    /\ db_patterns' = increment_games_since(db_patterns, ConcurrentPlayer)
    /\ tasks' = [tasks EXCEPT ![t].pc = "done"]
    /\ UNCHANGED <<botVars, callVars, passVars, storeVars, lastOp, before>>

NextConcurrent ==
    \/ \E t \in TaskIds : TaskGetByKey(t)
    \/ \E t \in TaskIds : TaskWrite(t)
    \/ \E t \in TaskIds : TaskIncrement(t)

SpecConcurrent == InitConcurrent /\ [][NextConcurrent]_vars

\* C26: when both concurrent passes have finished, the patterns table is the
\* one that running them one after the other, in one of the two orders, leaves:
\* no update is lost and no (player, pattern key) has two rows.
C26_ConcurrentPassesSerializable ==
    (tasks # <<>> /\ \A t \in TaskIds : tasks[t].pc = "done") =>
        /\ db_patterns \in
              {serial_pass(serial_pass(before, ConcurrentPlayer, tasks[1].updates),
                           ConcurrentPlayer, tasks[2].updates),
               serial_pass(serial_pass(before, ConcurrentPlayer, tasks[2].updates),
                           ConcurrentPlayer, tasks[1].updates)}
        /\ \A i, j \in 1..Len(db_patterns) :
              (/\ db_patterns[i].player_id = db_patterns[j].player_id
               /\ db_patterns[i].pattern_key = db_patterns[j].pattern_key) => i = j

----------------------------------------------------------------------------
(* The pattern the coaching prompt focuses on *)

\* the coaching_context dict analyze_player hands to coach.analyze_matches,
\* reduced to the entries built from the patterns
coaching_context(active_patterns) ==
    [active_patterns  |-> active_patterns,
     pattern_progress |-> [i \in 1..Len(active_patterns) |->
                             [pattern_key        |-> active_patterns[i].pattern_key,
                              occurrences        |-> active_patterns[i].occurrences,
                              status             |-> active_patterns[i].status,
                              improvement_streak |-> active_patterns[i].improvement_streak,
                              games_since_last   |-> active_patterns[i].games_since_last]]]

\* analyze_matches: the pattern of the "FOCUS ON THIS" section of the prompt,
\* <<>> when the section is left out
prompt_priority_pattern(context) ==
    LET active_patterns == Get(context, "active_patterns", <<>>)
    IN IF active_patterns = <<>> THEN <<>> ELSE <<active_patterns[1]>>

\* C27: after a pass, the pattern the coaching prompt focuses on is the one
\* get_priority_pattern selected: it has status active and no active pattern of
\* the player has a greater occurrences / (games_since_last + 1) score.
C27_PromptFocusIsPriorityPattern ==
    PassDone =>
        LET active_patterns == get_active(db_patterns, player)
            focus == prompt_priority_pattern(coaching_context(active_patterns))
        IN /\ focus = priority_pattern
           /\ focus # <<>> =>
                 /\ focus[1].status = "active"
                 /\ \A i \in 1..Len(active_patterns) :
                       active_patterns[i].status = "active"
                           => ~score_greater(active_patterns[i], focus[1])

----------------------------------------------------------------------------
(* RiotAPI._request under its retry decorator, and the handler of           *)
(* analyze_player its exception reaches                                     *)

\* HTTP status codes of the responses to one request's attempts
RiotStatuses == {200, 401, 403, 404, 429, 500}

\* @retry(stop=stop_after_attempt(3), wait=wait_exponential(...)) of _request
riot_stop_after_attempt == 3

\* the decorator names no retry condition: tenacity then retries on every
\* exception that leaves the function
riot_retry_condition(raised) == raised # "None"

\* the body of _request for one response (status_code 0 stands for no exception)
riot_request_body(status_code) ==
    IF status_code = 200
    THEN [raised |-> "None", status_code |-> 0]
    ELSE [raised |-> "RiotAPIError", status_code |-> status_code]

\* the except clause of analyze_player that takes the exception
analyze_player_handler(raised, status_code) ==
    IF raised = "RiotAPIError"
    THEN (IF status_code \in {404, 401, 403, 429}
          THEN <<"except RiotAPIError", status_code>>
          ELSE <<"except RiotAPIError", 0>>)
    ELSE <<"except Exception", 0>>

InitRiot ==
    /\ fn = "_request"
    /\ args \in [responses : [1..riot_stop_after_attempt -> RiotStatuses]]
    /\ ret = [done |-> FALSE, raised |-> "None", status_code |-> 0, handler |-> <<>>]
    /\ calls = 0
    /\ IdlePass

\* one attempt: the body runs; the decorator returns its value, schedules
\* another attempt, or, after the last attempt (reraise is not set), raises
\* tenacity.RetryError in place of the body's exception
AttemptRiot ==
    /\ fn = "_request" /\ ~ret.done /\ calls < riot_stop_after_attempt
    /\ LET result == riot_request_body(args.responses[calls + 1])
           failed == riot_retry_condition(result.raised)
           last   == calls + 1 >= riot_stop_after_attempt
           raised == IF failed /\ last THEN "RetryError" ELSE result.raised
           status_code == IF failed /\ last THEN 0 ELSE result.status_code
       IN ret' = [done |-> ~failed \/ last,
                  raised |-> raised,
                  status_code |-> status_code,
                  handler |-> IF failed /\ last
                              THEN analyze_player_handler(raised, status_code) ELSE <<>>]
    /\ calls' = calls + 1
    /\ UNCHANGED <<botVars, tasks, fn, args, passVars, repoVars, storeVars>>

NextRiot == AttemptRiot

SpecRiot == InitRiot /\ [][NextRiot]_vars

\* C28: a request that ends on a non-200 response ends in a RiotAPIError that
\* carries the response's status code, and the clause of analyze_player for
\* that status runs; a 404 answer to the first attempt ends the request there.
C28_RiotErrorReachesCaller ==
    (fn = "_request" /\ ret.done) =>
        /\ args.responses[calls] # 200 =>
              /\ ret.raised = "RiotAPIError"
              /\ ret.status_code = args.responses[calls]
              /\ ret.handler[1] = "except RiotAPIError"
              /\ args.responses[calls] \in {404, 401, 403, 429}
                    => ret.handler[2] = args.responses[calls]
        /\ args.responses[1] = 404 => calls = 1

----------------------------------------------------------------------------
(* The UNKNOWN zone: extraction of kills with and without a position, and   *)
(* the classifier on the grid                                               *)

InitUnknown == InitMalformed \/ InitZone

NextUnknown == CallExtract \/ CallZone

SpecUnknown == InitUnknown /\ [][NextUnknown]_vars

\* C29: no extracted death has map_zone unknown; a kill event without position
\* is recorded at (0, 0) in base_blue; determine_map_zone on integer
\* coordinates returns one of the twelve named zones.
C29_NeverUnknownZone ==
    /\ (fn = "extract_deaths_from_match" /\ calls > 0) =>
          /\ \A i \in 1..Len(ret.value) : ret.value[i].map_zone \in MapZone \ {"unknown"}
          /\ "position" \notin DOMAIN BadEvent =>
                /\ ret.value[2].position_x = 0 /\ ret.value[2].position_y = 0
                /\ ret.value[2].map_zone = "base_blue"
    /\ (fn = "determine_map_zone" /\ calls > 0) => ret \in MapZone \ {"unknown"}

\* a kill with killer and timestamp but no position, between two kills that
\* have one: its record lies at (0, 0) in base_blue
C29_Witness ==
    /\ fn = "extract_deaths_from_match" /\ calls > 0
    /\ DOMAIN BadEvent = {"type", "victimId", "timestamp", "killerId"}
    /\ Len(ret.value) = 3
    /\ ret.value[2].position_x = 0 /\ ret.value[2].position_y = 0
    /\ ret.value[2].map_zone = "base_blue"
    /\ ret.value[1].map_zone = "river_top"

----------------------------------------------------------------------------
(* MissionTracker (discord_bot/missions.py) with PlayerMemory.record_mission *)
(* for one user whose profile exists.  generate_mission calls the blocking   *)
(* Claude client and has no await of its own, so each call runs to its end.  *)

MaxMissionCalls == 4   \* tracker calls of one exploration

User == 1

\* a Mission reduced to its status, with a history field counting the
\* record_mission calls made for it
NewMission == [status |-> "active", recorded |-> 0]

\* UserSession.current_mission as a position in missions (1-based), 0 for None
current_mission(session) ==
    IF 0 <= session.current_mission_idx /\ session.current_mission_idx < Len(session.missions)
    THEN session.current_mission_idx + 1 ELSE 0

\* PlayerMemory.record_mission
record_mission(prof, completed) ==
    IF completed THEN [prof EXCEPT !.missions_completed = @ + 1]
    ELSE [prof EXCEPT !.missions_failed = @ + 1]

\* generate_mission: sessions after the call; when the Claude call raises, the
\* except clause returns the fallback text and nothing is stored
generate_mission(sess, user_id, ok) ==
    IF ~ok THEN sess
    ELSE LET started == IF user_id \in DOMAIN sess THEN sess
                        ELSE (user_id :> [missions |-> <<>>, current_mission_idx |-> 0]) @@ sess
             missions == Append(started[user_id].missions, NewMission)
         IN [started EXCEPT ![user_id] =
                [missions |-> missions, current_mission_idx |-> Len(missions) - 1]]

\* the status given to the current mission, and the record made for it
mark_current(sess, user_id, status) ==
    LET cur == current_mission(sess[user_id])
    IN [sess EXCEPT ![user_id].missions[cur] =
            [status |-> status, recorded |-> sess[user_id].missions[cur].recorded + 1]]

InitMission ==
    /\ fn = "" /\ args = <<>> /\ calls = 0
    /\ ret = [success |-> FALSE, status_before |-> "none"]
    /\ sessions = <<>>
    /\ profile = [missions_completed |-> 0, missions_failed |-> 0]
    /\ tasks = <<>>
    /\ db_patterns = <<>> /\ db_matches = <<>> /\ db_deaths = <<>>
    /\ pc = "idle" /\ player = 0 /\ all_deaths = <<>> /\ pattern_updates = <<>>
    /\ triggered = {} /\ passes = 0 /\ priority_pattern = <<>>
    /\ lastOp = NoOp /\ before = <<>>

\* generate_mission called for the user (the /coach command)
GenerateMission(ok) ==
    /\ calls < MaxMissionCalls
    /\ fn' = "generate_mission" /\ args' = [ok |-> ok]
    /\ sessions' = generate_mission(sessions, User, ok)
    /\ ret' = [success |-> ok, status_before |-> "none"]
    /\ calls' = calls + 1
    /\ UNCHANGED <<profile, tasks, passVars, repoVars, storeVars>>

GenerateNewMission(ok) ==
    /\ calls < MaxMissionCalls
    /\ fn' = "generate_new_mission" /\ args' = [ok |-> ok]
    /\ calls' = calls + 1
    /\ IF User \notin DOMAIN sessions
       THEN /\ ret' = [success |-> FALSE, status_before |-> "none"]
            /\ UNCHANGED <<sessions, profile>>
       ELSE LET cur  == current_mission(sessions[User])
                skip == cur # 0 /\ sessions[User].missions[cur].status = "active"
                marked == IF skip THEN mark_current(sessions, User, "skipped") ELSE sessions
            IN /\ profile' = IF skip THEN record_mission(profile, FALSE) ELSE profile
               /\ sessions' = generate_mission(marked, User, ok)
               /\ ret' = [success |-> ok,
                          status_before |-> IF cur = 0 THEN "none"
                                            ELSE sessions[User].missions[cur].status]
    /\ UNCHANGED <<tasks, passVars, repoVars, storeVars>>

CompleteMission(ok) ==
    /\ calls < MaxMissionCalls
    /\ fn' = "complete_mission" /\ args' = [ok |-> ok]
    /\ calls' = calls + 1
    /\ IF User \notin DOMAIN sessions \/ current_mission(sessions[User]) = 0
       THEN /\ ret' = [success |-> FALSE, status_before |-> "none"]
            /\ UNCHANGED <<sessions, profile>>
       ELSE LET cur == current_mission(sessions[User])
            IN /\ profile' = record_mission(profile, TRUE)
               /\ sessions' = generate_mission(mark_current(sessions, User, "completed"),
                                               User, ok)
               /\ ret' = [success |-> TRUE,
                          status_before |-> sessions[User].missions[cur].status]
    /\ UNCHANGED <<tasks, passVars, repoVars, storeVars>>

NextMission ==
    \/ \E ok \in BOOLEAN : GenerateMission(ok)
    \/ \E ok \in BOOLEAN : GenerateNewMission(ok)
    \/ \E ok \in BOOLEAN : CompleteMission(ok)

SpecMission == InitMission /\ [][NextMission]_vars

\* C30: whatever the calls and whether or not mission generation fails, no
\* mission is recorded more than once in the player's completed/failed
\* counters, the counters hold exactly the records made, and a complete_mission
\* call that succeeds found its mission ACTIVE.
C30_MissionRecordedOnce ==
    /\ \A u \in DOMAIN sessions :
          \A i \in 1..Len(sessions[u].missions) : sessions[u].missions[i].recorded <= 1
    /\ profile.missions_completed + profile.missions_failed
          = SeqSum([i \in 1..Len(IF User \in DOMAIN sessions
                                  THEN sessions[User].missions ELSE <<>>) |->
                      sessions[User].missions[i].recorded])
    /\ (fn = "complete_mission" /\ ret.success) => ret.status_before = "active"

====
